---- MODULE Spec2Model ----
(***************************************************************************)
(* The streaming generation run of MilongaApp                              *)
(* (POST /api/agent/generate/ndjson, registerAgentStreamRoutes) together   *)
(* with the group planner it drives (planOneTanda, planOneTandaWithRetry). *)
(* One run is a sequential process; every `await run(agent, ...)` is a     *)
(* suspension point at which the oracle answers or fails.                  *)
(*                                                                         *)
(* Strings are sequences of one-character strings, so that the identity    *)
(* normalisation (norm / stripExt / matchKey) is computed, not assumed.    *)
(* The debug lines of type "llm_message" are not recorded in `out`; they   *)
(* are written only from inside the planning calls.                        *)
(***************************************************************************)
EXTENDS Integers, Sequences, FiniteSets, TLC

\* ------------------------------------------------------------------ bounds
\* longest oracle answer explored (the schema allows 6)
MaxAnswerLen == 3
\* longest orchestra ranking explored
MaxSuggestions == 1

\* -------------------------------------------------------- program constants
\* NextTanda: tracks .min(2).max(6)
MinAnswerLen == 2
SchemaMaxLen == 6
CAND_MAX == 80
MaxRetriesDefault == 3
AltSliceMax == 8
LoopGuardSeconds == 60
AdmitSlackSeconds == 30
PlaceholderSeconds == 180
ShortlistMinSec == 60
ShortlistMaxSec == 480
ShortlistMaxN == 100
FallbackCandMax == 60
OriginCandMax == 80
DefaultCortinaSeconds == 60

\* ----------------------------------------------------------------- strings
\* null / undefined / "" (all falsy in the source)
Null == <<>>

UpperChars == <<"A","B","C","D","E","F","G","H","I","J","K","L","M",
                "N","O","P","Q","R","S","T","U","V","W","X","Y","Z">>
LowerChars == <<"a","b","c","d","e","f","g","h","i","j","k","l","m",
                "n","o","p","q","r","s","t","u","v","w","x","y","z">>
DigitChars == {"0","1","2","3","4","5","6","7","8","9"}

Range(s) == {s[k] : k \in DOMAIN s}

UpperSet == Range(UpperChars)
AlnumSet == Range(UpperChars) \cup Range(LowerChars) \cup DigitChars
LowerOf ==
  [c \in UpperSet |-> LowerChars[CHOOSE k \in DOMAIN UpperChars : UpperChars[k] = c]]

ToLower(c) == IF c \in UpperSet THEN LowerOf[c] ELSE c

IsAlnum(c) == c \in AlnumSet

LowerStr(s) == [k \in DOMAIN s |-> ToLower(s[k])]

SlashStr(s) == [k \in DOMAIN s |-> IF s[k] = "\\" THEN "/" ELSE s[k]]

\* String.prototype.trim on the blank character
RECURSIVE TrimLeft(_)
TrimLeft(s) == IF s # <<>> /\ Head(s) = " " THEN TrimLeft(Tail(s)) ELSE s
RECURSIVE TrimRight(_)
TrimRight(s) ==
  IF s # <<>> /\ s[Len(s)] = " " THEN TrimRight(SubSeq(s, 1, Len(s) - 1)) ELSE s
Trim(s) == TrimRight(TrimLeft(s))

FilePrefix == <<"f","i","l","e",":","/","/">>
DropFilePrefix(s) ==
  IF Len(s) >= 7 /\ LowerStr(SubSeq(s, 1, 7)) = FilePrefix
  THEN SubSeq(s, 8, Len(s)) ELSE s

\* decodeURIComponent on the escapes the model's alphabet can form; any other
\* use of "%" is a URIError.
HexVal(a, b) ==
  CASE ToLower(a) = "4" /\ ToLower(b) = "1" -> "A"
    [] ToLower(a) = "6" /\ ToLower(b) = "1" -> "a"
    [] ToLower(a) = "2" /\ ToLower(b) = "e" -> "."
    [] ToLower(a) = "2" /\ ToLower(b) = "5" -> "%"
    [] ToLower(a) = "2" /\ ToLower(b) = "f" -> "/"
    [] ToLower(a) = "5" /\ ToLower(b) = "c" -> "\\"
    [] ToLower(a) = "2" /\ ToLower(b) = "2" -> "\""
    [] ToLower(a) = "2" /\ ToLower(b) = "a" -> "*"
    [] ToLower(a) = "5" /\ ToLower(b) = "2" -> "R"
    [] ToLower(a) = "5" /\ ToLower(b) = "5" -> "U"
    [] ToLower(a) = "5" /\ ToLower(b) = "a" -> "Z"
    [] ToLower(a) = "5" /\ ToLower(b) = "e" -> "^"
    [] OTHER -> "?"

RECURSIVE DecodeOk(_)
DecodeOk(s) ==
  IF s = <<>> THEN TRUE
  ELSE IF Head(s) = "%"
       THEN Len(s) >= 3 /\ HexVal(s[2], s[3]) # "?" /\ DecodeOk(SubSeq(s, 4, Len(s)))
       ELSE DecodeOk(Tail(s))

RECURSIVE DecodeRun(_)
DecodeRun(s) ==
  IF s = <<>> THEN <<>>
  ELSE IF Head(s) = "%"
       THEN <<HexVal(s[2], s[3])>> \o DecodeRun(SubSeq(s, 4, Len(s)))
       ELSE <<Head(s)>> \o DecodeRun(Tail(s))

\* try { x = decodeURIComponent(x) } catch {}
decodeURIComponent(s) == IF DecodeOk(s) THEN DecodeRun(s) ELSE s

norm(s) ==
  IF s = Null THEN <<>>
  ELSE LowerStr(SlashStr(decodeURIComponent(DropFilePrefix(Trim(s)))))

\* p.replace(/\.[a-z0-9]+$/i, "")
LastDot(p) ==
  IF \E k \in DOMAIN p : p[k] = "."
  THEN CHOOSE k \in DOMAIN p : p[k] = "." /\ \A j \in (k + 1)..Len(p) : p[j] # "."
  ELSE 0

stripExt(p) ==
  LET d == LastDot(p) IN
  IF d > 0 /\ d < Len(p) /\ \A j \in (d + 1)..Len(p) : IsAlnum(p[j])
  THEN SubSeq(p, 1, d - 1) ELSE p

matchKey(s) == stripExt(norm(s))


\* ------------------------------------------------------------------ tracks
\* a missing string-valued attribute (key, origin)
NoKey == ""
NoOrch == ""

Track(id, artist, genre, sec, year, key) ==
  [id |-> id, artist |-> artist, genre |-> genre, sec |-> sec, year |-> year,
   key |-> key, placeholder |-> FALSE]

\* { placeholder: true, style, title: "replace this" }
PlaceholderTrack ==
  [id |-> Null, artist |-> "Unknown", genre |-> "", sec |-> 0, year |-> 0,
   key |-> NoKey, placeholder |-> TRUE]

IdA == <<"a", ".", "m">>
IdB == <<"b", ".", "m">>
IdC == <<"c", ".", "m">>
IdD == <<"d", ".", "m">>
IdE == <<"e", ".", "m">>
IdK == <<"k", ".", "m">>
IdG == <<"g", ".", "m">>
\* "%41.W": the first track re-encoded, with another extension
IdAVariant == <<"%", "4", "1", ".", "W">>
IdUnknown == <<"z">>
ReplaceId == <<"r", "e", "p", "l", "a", "c", "e">>

\* The library snapshot of the model: three tangos of origin O1, one of O2,
\* a vals of O1, a non-dance track (filler pool) and a milonga of O4.
Library0 ==
  << Track(IdA, "O1", "tango", 100, 1940, "8A"),
     Track(IdB, "O1", "tango", 130, 1940, "9A"),
     Track(IdC, "O1", "tango", 100, 1940, NoKey),
     Track(IdD, "O2", "tango", 100, 1940, "8B"),
     Track(IdE, "O1", "vals", 100, 1950, "3A"),
     Track(IdK, "O3", "jazz", 60, 2000, NoKey),
     Track(IdG, "O4", "milonga", 100, 1940, NoKey) >>

\* Request inputs explored
\* body without catalog.tracks
NoCatalog == << <<"-">> >>
CatalogFull == << IdAVariant, IdB, IdC, IdD, IdE, IdK, IdG >>
CatalogNone == << <<"q", ".", "m">> >>
CatalogChoices == {CatalogFull, CatalogNone, NoCatalog}
MinutesChoices == {7}
Slot(style, role, size) == [style |-> style, role |-> role, size |-> size]
SlotsChoices ==
  { << Slot("Tango", "", 2), Slot("Tango", "", 2), Slot("Vals", "", 2) >> }

\* What the oracle may name in an answer
OracleIds == {IdA, IdB, IdD, IdE, IdAVariant, IdUnknown}
OracleOrchestras == {"O1", "O2", "O9"}

getId(t) == t.id

\* matchKey tabulated once over the identity strings of the model (the
\* strings themselves and the keys derived from them)
KnownIds ==
  LET raw == OracleIds \cup Range(CatalogFull) \cup Range(CatalogNone)
             \cup {Library0[k].id : k \in DOMAIN Library0} \cup {ReplaceId, Null}
      keys == {matchKey(x) : x \in raw}
  IN raw \cup keys \cup {matchKey(x) : x \in keys}
MatchKeyTable == [x \in KnownIds |-> matchKey(x)]
matchKeyOf(x) == IF x \in KnownIds THEN MatchKeyTable[x] ELSE matchKey(x)

\* toSeconds on a numeric duration
toSeconds(v) == IF v > 6000 THEN (v + 500) \div 1000 ELSE v
durationSec(t) == toSeconds(t.sec)

trackArtist(t) == t.artist

StyleLower(style) ==
  CASE style = "Tango" -> "tango"
    [] style = "Vals" -> "vals"
    [] style = "Milonga" -> "milonga"
    [] OTHER -> style

hasStyle(t, style) == t.genre = StyleLower(style)

CAMELOT_ORDER ==
  << "1A","2A","3A","4A","5A","6A","7A","8A","9A","10A","11A","12A",
     "1B","2B","3B","4B","5B","6B","7B","8B","9B","10B","11B","12B" >>

keyToCamelot(t) == IF t.key \in Range(CAMELOT_ORDER) THEN t.key ELSE NoKey

\* ------------------------------------------------------------------- roles
ROLE_RULES ==
  [ classic |-> [minYear |-> 1930, maxYear |-> 1945, preferAlt |-> FALSE],
    rich    |-> [minYear |-> 1946, maxYear |-> 1958, preferAlt |-> FALSE],
    modern  |-> [minYear |-> 1990, maxYear |-> 2100, preferAlt |-> FALSE],
    alt     |-> [minYear |-> 1995, maxYear |-> 2100, preferAlt |-> TRUE] ]

AltGenres == {"alt", "alternative", "nuevo", "neo", "electro", "pop", "rock",
              "jazz", "swing", "blues", "folk"}

\* year 0 stands for an unknown year
effectiveYear(t) == t.year

trackFitsRole(t, role) ==
  IF role \notin DOMAIN ROLE_RULES THEN TRUE
  ELSE LET r == ROLE_RULES[role]
           y == effectiveYear(t)
           inYear == IF y = 0 THEN TRUE ELSE y >= r.minYear /\ y <= r.maxYear
       IN IF ~r.preferAlt THEN inYear ELSE inYear /\ t.genre \in AltGenres

\* idx is the 0-based slot position
inferRoleByPosition(idx) ==
  IF idx <= 1 THEN "classic"
  ELSE IF idx <= 3 THEN "rich"
  ELSE IF idx = 5 THEN "alt"
  ELSE "modern"


\* ------------------------------------------------------- sequence helpers
Min(a, b) == IF a < b THEN a ELSE b
Max(a, b) == IF a > b THEN a ELSE b

Slice(q, n) == SubSeq(q, 1, Min(n, Len(q)))

RECURSIVE SumSeconds(_)
SumSeconds(tracks) ==
  IF tracks = <<>> THEN 0 ELSE durationSec(Head(tracks)) + SumSeconds(Tail(tracks))

IdsOf(tracks) == [k \in DOMAIN tracks |-> getId(tracks[k])]

\* --------------------------------------------------------- used identities
markUsed(used, id) == used \cup {matchKeyOf(id)}
\* membership by the id as written, without matchKey
isUsedRaw(used, id) == id \in used
isUsed(used, id) == matchKeyOf(id) \in used

\* toSet re-normalises the keys it is given
toSet(used) == {matchKeyOf(k) : k \in used}

\* ------------------------------------------------------------- working set
\* extractCatalogPathsAndStyles returns normalised ids; the route normalises
\* them again.  (Base64url decoding of ids is not modelled: no id of the
\* model decodes to a path.)
extractCatalogIds(catalog) ==
  {norm(catalog[k]) : k \in DOMAIN catalog} \ {<<>>}

idKeysExact(catalog) == {norm(x) : x \in extractCatalogIds(catalog)}
idKeysNoExt(catalog) == {stripExt(x) : x \in idKeysExact(catalog)}

buildWorkingSet(lib, catalog) ==
  SelectSeq(lib, LAMBDA t :
    /\ getId(t) # Null
    /\ \/ norm(getId(t)) \in idKeysExact(catalog)
       \/ stripExt(norm(getId(t))) \in idKeysNoExt(catalog))

\* libById.get(id) || libByNormKey.get(matchKey(id)) || null, as a sequence
\* of zero or one track; a Map built from pairs keeps the last entry of a key
LastWhere(ws, hits) ==
  IF hits = {} THEN <<>>
  ELSE << ws[CHOOSE k \in hits : \A j \in hits : j <= k] >>

resolveByAnyId(ws, id) ==
  LET byId == LastWhere(ws, {k \in DOMAIN ws : getId(ws[k]) = id})
      byKey == LastWhere(ws, {k \in DOMAIN ws :
                                matchKeyOf(getId(ws[k])) = matchKeyOf(id)})
  IN IF byId # <<>> THEN byId ELSE byKey

\* ---------------------------------------------------------------- profiles
RECURSIVE DistinctArtists(_, _)
DistinctArtists(tracks, seen) ==
  IF tracks = <<>> THEN <<>>
  ELSE LET a == trackArtist(Head(tracks)) IN
       IF a \in seen THEN DistinctArtists(Tail(tracks), seen)
       ELSE <<a>> \o DistinctArtists(Tail(tracks), seen \cup {a})

buildOrchestraProfiles(ws) ==
  LET names == DistinctArtists(ws, {}) IN
  [k \in DOMAIN names |->
     [orchestra |-> names[k],
      trackCount |-> Min(30, Len(SelectSeq(ws, LAMBDA t :
                        trackArtist(t) = names[k] /\ getId(t) # Null)))]]

diversityScore(trackCount) ==
  IF trackCount < 3 THEN trackCount * 10
  ELSE IF trackCount <= 15 THEN 100 + (15 - trackCount) * 2
  ELSE Max(20, 100 - (trackCount - 15) * 3)

Abs(x) == IF x < 0 THEN 0 - x ELSE x

\* the sort comparator: negative when a goes before b
altCompare(a, b) ==
  IF Abs(diversityScore(a.trackCount) - diversityScore(b.trackCount)) < 5
  THEN Max(3, b.trackCount) - Max(3, a.trackCount)
  ELSE diversityScore(b.trackCount) - diversityScore(a.trackCount)

RECURSIVE InsertStable(_, _)
InsertStable(sorted, x) ==
  IF sorted = <<>> THEN <<x>>
  ELSE IF altCompare(x, sorted[Len(sorted)]) < 0
       THEN Append(InsertStable(SubSeq(sorted, 1, Len(sorted) - 1), x),
                   sorted[Len(sorted)])
       ELSE Append(sorted, x)

RECURSIVE SortStable(_)
SortStable(q) ==
  IF q = <<>> THEN <<>>
  ELSE CHOOSE r \in {InsertStable(front, q[Len(q)]) :
                       front \in {SortStable(SubSeq(q, 1, Len(q) - 1))}} : TRUE

getAlternativeOrchestras(profs, orchestra) ==
  LET available == SelectSeq(profs, LAMBDA p : p.orchestra # orchestra)
      top == Slice(SortStable(available), AltSliceMax)
  IN [k \in DOMAIN top |-> top[k].orchestra]


\* ------------------------------------------------------------ planOneTanda
\* strips "... y su orquesta" style suffixes; on the origin names of the
\* model only the suffixed spelling of O1 changes
normalizeOrchestra(orch) ==
  IF orch = "O1 y su orquesta" THEN "O1" ELSE orch

\* the candidate list planOneTanda sends to the oracle (candSlim)
candSlim(candidates, allStyleCandidates, orchestra, size) ==
  IF orchestra # NoOrch /\ orchestra # "any orchestra"
  THEN LET byOrch == SelectSeq(candidates, LAMBDA t :
                       normalizeOrchestra(trackArtist(t)) = normalizeOrchestra(orchestra))
           widened == IF Len(byOrch) < Max(4, IF size = 0 THEN 4 ELSE size)
                      THEN allStyleCandidates ELSE byOrch
           final == IF Len(widened) = 0 THEN candidates ELSE widened
       IN Slice(final, CAND_MAX)
  ELSE Slice(candidates, CAND_MAX)

RECURSIVE Pad(_, _)
Pad(ids, n) == IF n <= 0 THEN ids ELSE Pad(Append(ids, ReplaceId), n - 1)

\* the value planOneTanda returns for an oracle answer `tracks`; `cands`
\* records the candidate list that call had sent (history, not program state)
planOneTandaResult(tracks, size, cands) ==
  [ok |-> TRUE,
   trackIds |-> Pad(tracks, size - Len(tracks)),
   warned |-> Len(tracks) < size,
   cands |-> cands]

NoResult == [ok |-> FALSE, trackIds |-> <<>>, warned |-> FALSE, cands |-> <<>>]

\* lastResult || { trackIds: [], notes: ..., warnings: ["Empty tanda"] }
EmptyResult == [ok |-> TRUE, trackIds |-> <<>>, warned |-> TRUE, cands |-> <<>>]

countReal(r) ==
  Len(SelectSeq(r.trackIds, LAMBDA id : id # ReplaceId))

\* --------------------------------------------------- planOneTandaWithRetry
\* The ladder is suspended at one oracle call at a time:
\*   phase "first"  - the first attempt with the requested origin
\*   phase "retry"  - attempt idx (1-based) with alternative origin alts[idx]
\*   phase "final"  - the attempt without origin restriction
NoLadder ==
  [phase |-> "none", idx |-> 0, last |-> NoResult, alts |-> <<>>,
   size |-> 0, candidates |-> <<>>, allStyle |-> <<>>, orchestra |-> NoOrch,
   profiles |-> <<>>, maxRetries |-> 0, calls |-> 0,
   seen |-> 0]

needsAlternatives(last, size) ==
  ~last.ok \/ countReal(last) < Max(1, size - 2)

needsFinalFallback(last) ==
  ~last.ok \/ countReal(last) = 0

\* a loop bound that ignores maxRetries
retryLimitAll(maxRetries, alts) == Len(alts)
retryLimit(maxRetries, alts) == Min(maxRetries, Len(alts))

\* the comparison the wrong way round: only a worse response replaces the
\* result kept
isWorse(r, last) == countReal(r) < countReal(last)
isBetter(r, last) == countReal(r) > countReal(last)

enoughReal(r, size) == countReal(r) >= size - 1

\* origin restriction of the call the ladder is suspended at
ladderOrchestra(l) ==
  CASE l.phase = "first" -> l.orchestra
    [] l.phase = "retry" -> l.alts[l.idx]
    [] OTHER -> NoOrch

ladderSent(l) ==
  IdsOf(candSlim(l.candidates, l.allStyle, ladderOrchestra(l), l.size))

ladderStart(size, candidates, allStyle, orchestra, profs) ==
  [phase |-> "first", idx |-> 0, last |-> NoResult, alts |-> <<>>,
   size |-> size, candidates |-> candidates, allStyle |-> allStyle,
   orchestra |-> orchestra, profiles |-> profs,
   maxRetries |-> MaxRetriesDefault, calls |-> 1, seen |-> 0]

ladderReturn(l) ==
  [l EXCEPT !.phase = "return",
            !.last = IF l.last.ok THEN l.last ELSE EmptyResult]

afterRetries(l) ==
  IF needsFinalFallback(l.last)
  THEN [l EXCEPT !.phase = "final", !.calls = l.calls + 1]
  ELSE ladderReturn(l)

afterFirst(l) ==
  IF needsAlternatives(l.last, l.size)
  THEN LET alts == getAlternativeOrchestras(l.profiles, l.orchestra) IN
       IF retryLimit(l.maxRetries, alts) > 0
       THEN [l EXCEPT !.phase = "retry", !.idx = 1, !.alts = alts,
                      !.calls = l.calls + 1]
       ELSE afterRetries(l)
  ELSE afterRetries(l)

afterRetry(l, r) ==
  LET l1 == IF r.ok /\ isBetter(r, l.last) THEN [l EXCEPT !.last = r] ELSE l IN
  IF r.ok /\ enoughReal(r, l.size) THEN afterRetries(l1)
  ELSE IF l.idx + 1 <= retryLimit(l.maxRetries, l.alts)
       THEN [l1 EXCEPT !.idx = l.idx + 1, !.calls = l.calls + 1]
       ELSE afterRetries(l1)

\* the ladder resumes with r, the outcome of the call it was suspended at
\* (NoResult when the call threw); the result has phase "return" when the
\* ladder is over and is otherwise suspended at its next call
ladderAdvance(l, r) ==
  CASE l.phase = "first" -> afterFirst([l EXCEPT !.last = r])
    [] l.phase = "retry" -> afterRetry(l, r)
    [] l.phase = "final" ->
         ladderReturn(IF r.ok /\ isBetter(r, l.last) THEN [l EXCEPT !.last = r] ELSE l)
    [] OTHER -> l

\* `seen` (history, not program state) is the largest number of real
\* identities among the responses the ladder has obtained
ladderStep(l, r) ==
  ladderAdvance([l EXCEPT !.seen = Max(@, IF r.ok THEN countReal(r) ELSE 0)], r)


\* ------------------------------------------------------ the streaming run
VARIABLES
  LIBRARY,           \* the library snapshot (dj-lib LIBRARY)
  body,              \* the request: minutes, catalog, slots
  pc,                \* where the handler is suspended
  workingSet,        \* library tracks matched by the catalog
  slots,             \* normalised slots
  usedIds,           \* set of matchKey(id)
  tandasResolved,    \* groups admitted so far
  remainingSeconds,
  recentOrchestras,
  prevKey,
  slotIx,            \* loop variable i, 1-based
  path,              \* "origin" or "fallback": which planning call is pending
  targetOrchestra,
  profiles,          \* buildOrchestraProfiles(workingSet)
  lad,               \* the retry ladder that is suspended
  out,               \* NDJSON lines written so far
  hist,              \* history: calls issued, last ladder result
  parked,            \* a second generation request, suspended at an await
  connected,         \* the NDJSON consumer is still connected
  rp,                \* a POST /api/agent/replace request
  rt                 \* a POST /api/agent/retryTanda request

vars == << LIBRARY, body, pc, workingSet, slots, usedIds, tandasResolved,
           remainingSeconds, recentOrchestras, prevKey, slotIx, path,
           targetOrchestra, profiles, lad, out, hist,
           parked, connected, rp, rt >>

\* what a step of the running generation request leaves alone
outside == << LIBRARY, parked, connected, rp, rt >>

Ev(type, data) == [type |-> type, data |-> data]

\* slotCalls: oracle calls issued for the current slot; ladderLen, ladderSize,
\* ladderWarned: the trackIds length, the requested size and the warning flag
\* of the latest planOneTandaWithRetry result (-1: none yet); dupOffered: an
\* answer used for a group named a used identity or one identity twice;
\* pending: the slots of the oracle calls issued and not yet settled;
\* snapshot: the library as it was when the working set was built
NoHist == [slotCalls |-> 0, ladderLen |-> -1, ladderSize |-> 0,
           ladderReal |-> 0, ladderWarned |-> FALSE, ladderCalls |-> 0,
           dupOffered |-> FALSE, pending |-> <<>>, snapshot |-> <<>>]

\* the handler resumes from `await` once the call has resolved or rejected
notAwaited(s) == s
awaited(s) == [s EXCEPT !.hist.pending = <<>>]

\* the request-scoped state as one record
Cur ==
  [body |-> body, pc |-> pc, workingSet |-> workingSet, slots |-> slots,
   usedIds |-> usedIds, tandasResolved |-> tandasResolved,
   remainingSeconds |-> remainingSeconds,
   recentOrchestras |-> recentOrchestras, prevKey |-> prevKey,
   slotIx |-> slotIx, path |-> path, targetOrchestra |-> targetOrchestra,
   profiles |-> profiles, lad |-> lad, out |-> out, hist |-> hist]

Commit(s0) ==
  \E s \in {s0} :
    /\ body' = s.body
    /\ pc' = s.pc
    /\ workingSet' = s.workingSet
    /\ slots' = s.slots
    /\ usedIds' = s.usedIds
    /\ tandasResolved' = s.tandasResolved
    /\ remainingSeconds' = s.remainingSeconds
    /\ recentOrchestras' = s.recentOrchestras
    /\ prevKey' = s.prevKey
    /\ slotIx' = s.slotIx
    /\ path' = s.path
    /\ targetOrchestra' = s.targetOrchestra
    /\ profiles' = s.profiles
    /\ lad' = s.lad
    /\ out' = s.out
    /\ hist' = s.hist

\* a handler that ends the run without writing the error line
ThrowSilent(s, message) == Commit([s EXCEPT !.pc = "error"])
\* catch (e) { send({ type: "error", ... }); return res.end(); }
Throw(s, message) ==
  Commit([s EXCEPT !.out = Append(s.out, Ev("error", [error |-> message])),
                   !.pc = "error"])

normalizeSlots(slotsIn) ==
  [k \in DOMAIN slotsIn |->
     [style |-> slotsIn[k].style,
      role |-> IF slotsIn[k].role # "" THEN slotsIn[k].role
               ELSE inferRoleByPosition(k - 1),
      size |-> slotsIn[k].size]]

curSlot(s) == s.slots[s.slotIx]

baseRolePool(s) ==
  SelectSeq(s.workingSet, LAMBDA t :
    /\ hasStyle(t, curSlot(s).style)
    /\ trackFitsRole(t, curSlot(s).role)
    /\ ~isUsed(s.usedIds, getId(t)))

\* a slot loop without `if (remainingSeconds <= 60) break`
loopHeadUnguarded(s) ==
  IF s.slotIx > Len(s.slots)
  THEN [s EXCEPT !.pc = "cortinas", !.path = "none", !.lad = NoLadder,
                 !.targetOrchestra = NoOrch,
                 !.hist = [NoHist EXCEPT !.dupOffered = s.hist.dupOffered,
                                         !.pending = s.hist.pending,
                                         !.snapshot = s.hist.snapshot]]
  ELSE [s EXCEPT !.pc = "rank", !.path = "none", !.lad = NoLadder,
                 !.targetOrchestra = NoOrch,
                 !.hist = [NoHist EXCEPT !.slotCalls = 1,
                                         !.dupOffered = s.hist.dupOffered,
                                         !.pending = Append(s.hist.pending, s.slotIx),
                                         !.snapshot = s.hist.snapshot]]

\* top of the planning loop for slot s.slotIx: either leave the loop and
\* wait for listCortinas, or issue the origin-ranking call
loopHead(s) ==
  IF s.slotIx > Len(s.slots) \/ s.remainingSeconds <= LoopGuardSeconds
  THEN [s EXCEPT !.pc = "cortinas", !.path = "none", !.lad = NoLadder,
                 !.targetOrchestra = NoOrch,
                 !.hist = [NoHist EXCEPT !.dupOffered = s.hist.dupOffered,
                                         !.pending = s.hist.pending,
                                         !.snapshot = s.hist.snapshot]]
  ELSE [s EXCEPT !.pc = "rank", !.path = "none", !.lad = NoLadder,
                 !.targetOrchestra = NoOrch,
                 !.hist = [NoHist EXCEPT !.slotCalls = 1,
                                         !.dupOffered = s.hist.dupOffered,
                                         !.pending = Append(s.hist.pending, s.slotIx),
                                         !.snapshot = s.hist.snapshot]]

nextSlot(s0) ==
  \E s \in {s0} : Commit(loopHead([s EXCEPT !.slotIx = s.slotIx + 1]))

\* the request handler up to its first suspension
startRun(s) ==
  IF s.body.catalog = NoCatalog THEN Throw(s, "Missing catalog.tracks")
  ELSE \E ws \in {buildWorkingSet(LIBRARY, s.body.catalog)} :
       \E s1 \in {[s EXCEPT
                     !.workingSet = ws,
                     !.profiles = buildOrchestraProfiles(ws),
                     !.slots = normalizeSlots(s.body.slots),
                     !.out = <<Ev("start", [minutes |-> s.body.minutes])>>,
                     !.remainingSeconds = s.body.minutes * 60,
                     !.slotIx = 1,
                     !.hist.snapshot = LIBRARY]} :
         Commit(loopHead(s1))


\* shortlistCandidates(style, workingSet, usedIds, 100).slim; the energy sort
\* keeps the order, the tracks of the model carrying no energy
shortlistCandidates(style, ws, used, maxN) ==
  LET usedNorm == toSet(used) IN
  Slice(SelectSeq(ws, LAMBDA t :
          /\ hasStyle(t, style)
          /\ getId(t) # Null
          /\ matchKeyOf(getId(t)) \notin usedNorm
          /\ durationSec(t) >= ShortlistMinSec
          /\ durationSec(t) <= ShortlistMaxSec), maxN)

\* styleOnly.sort(comparator): the comparator calls roleScoreBoost, which is
\* declared in another function and is not in scope here, so the sort throws
\* a ReferenceError as soon as the comparator is invoked (two or more rows)
sortThrows(styleOnly) == Len(styleOnly) >= 2

issuePlan(s, pathName, l) ==
  [s EXCEPT !.pc = "plan", !.path = pathName, !.lad = l,
            !.hist.slotCalls = s.hist.slotCalls + 1,
            !.hist.pending = Append(s.hist.pending, s.slotIx)]

\* 3) style-only fallback, up to its first planning call
startFallback(s0) ==
  \E s \in {s0} :
  \E styleOnly \in {shortlistCandidates(curSlot(s).style, s.workingSet,
                                        s.usedIds, ShortlistMaxN)} :
    IF sortThrows(styleOnly) THEN Throw(s, "roleScoreBoost is not defined")
    ELSE Commit(issuePlan(s, "fallback",
           ladderStart(curSlot(s).size, Slice(styleOnly, FallbackCandMax),
                       styleOnly, NoOrch, s.profiles)))

\* the size of the whole pool, whatever the origin
availabilityOfPool(pool, orch) == Len(pool)
availability(pool, orch) ==
  Len(SelectSeq(pool, LAMBDA t : trackArtist(t) = orch))

\* first suggestion with enough unused tracks, else the first origin of the
\* pool with enough, else none
pickTargetOrchestra(pool, suggestions, sizeTarget) ==
  LET okSug == {k \in DOMAIN suggestions :
                  availability(pool, suggestions[k]) >= sizeTarget}
      names == DistinctArtists(pool, {})
      okAny == {k \in DOMAIN names : availability(pool, names[k]) >= sizeTarget}
  IN IF okSug # {} THEN suggestions[CHOOSE k \in okSug : \A j \in okSug : k <= j]
     ELSE IF okAny # {} THEN names[CHOOSE k \in okAny : \A j \in okAny : k <= j]
     ELSE NoOrch

\* 2) the origin ranking has answered
afterRank(s, suggestions) ==
  \E pool \in {baseRolePool(s)} :
  \E target \in {pickTargetOrchestra(pool, suggestions, curSlot(s).size)} :
  \E candidatesAll \in {SelectSeq(pool, LAMBDA t : trackArtist(t) = target)} :
    IF target = NoOrch \/ Len(candidatesAll) = 0 THEN startFallback(s)
    ELSE Commit(issuePlan([s EXCEPT !.targetOrchestra = target], "origin",
           ladderStart(curSlot(s).size, Slice(candidatesAll, OriginCandMax),
                       pool, target, s.profiles)))

\* for (const id of next.trackIds) { if (isUsed(id)) continue; ... }
RECURSIVE resolveOrigin(_, _, _, _, _)
resolveOrigin(ids, used, chosen, ws, target) ==
  IF ids = <<>> THEN [chosen |-> chosen, used |-> used]
  ELSE LET id == Head(ids)
           tr == resolveByAnyId(ws, id)
       IN IF ~isUsed(used, id) /\ tr # <<>> /\ trackArtist(tr[1]) = target
          THEN resolveOrigin(Tail(ids), markUsed(used, getId(tr[1])),
                             Append(chosen, tr[1]), ws, target)
          ELSE resolveOrigin(Tail(ids), used, chosen, ws, target)

RECURSIVE resolveFallback(_, _, _, _)
resolveFallback(ids, used, chosen, ws) ==
  IF ids = <<>> THEN [chosen |-> chosen, used |-> used]
  ELSE LET id == Head(ids)
           tr == resolveByAnyId(ws, id)
       IN IF ~isUsed(used, id) /\ tr # <<>>
          THEN resolveFallback(Tail(ids), markUsed(used, getId(tr[1])),
                               Append(chosen, tr[1]), ws)
          ELSE resolveFallback(Tail(ids), used, chosen, ws)

\* while (chosenTracks.length < sizeTarget) chosenTracks.push(placeholder)
RECURSIVE padTracks(_, _)
padTracks(chosen, sizeTarget) ==
  IF Len(chosen) < sizeTarget THEN padTracks(Append(chosen, PlaceholderTrack), sizeTarget)
  ELSE chosen

isRealTrack(t) == getId(t) # Null /\ ~t.placeholder

realTrackCount(tracks) == Len(SelectSeq(tracks, isRealTrack))

tandaSecondsOf(chosen) ==
  IF SumSeconds(chosen) <= 0 THEN PlaceholderSeconds * Len(chosen)
  ELSE SumSeconds(chosen)

\* the group is admitted whatever budget remains
admitUnbudgeted(chosen, seconds, remaining) == Len(chosen) > 0 /\ seconds > 0
admitOrigin(chosen, seconds, remaining) ==
  Len(chosen) > 0 /\ seconds > 0 /\ seconds <= remaining + AdmitSlackSeconds

admitFallback(chosen, seconds, remaining) ==
  /\ Len(chosen) > 0 /\ seconds > 0
  /\ seconds <= remaining + AdmitSlackSeconds
  /\ realTrackCount(chosen) >= 1

\* history: the answer named an identity that was already used, or named one
\* identity twice
offeredDuplicate(ids, used) ==
  \/ \E k \in DOMAIN ids : ids[k] # ReplaceId /\ isUsed(used, ids[k])
  \/ \E j, k \in DOMAIN ids :
       j < k /\ ids[j] # ReplaceId /\ matchKeyOf(ids[j]) = matchKeyOf(ids[k])

\* tandasResolved.push(tanda); remainingSeconds -= ...; send({type:"tanda"});
\* prevKey from the last entry.  slot, size, path and sent are history
\* fields: the slot planned, its size, the planning path and the candidate
\* list of the call whose answer was used.
\* a handler that pushes the group onto tandasResolved without sending it
emitTandaUnsent(s, chosen, seconds, dup) ==
  LET tanda == [style |-> curSlot(s).style, role |-> curSlot(s).role,
                tracks |-> chosen, seconds |-> seconds,
                slot |-> s.slotIx, size |-> curSlot(s).size,
                path |-> s.path, sent |-> s.lad.last.cands]
      lk == keyToCamelot(chosen[Len(chosen)])
  IN [s EXCEPT
        !.tandasResolved = Append(s.tandasResolved, tanda),
        !.remainingSeconds = s.remainingSeconds - seconds,
        !.recentOrchestras = IF s.path = "origin"
                             THEN Append(s.recentOrchestras, s.targetOrchestra)
                             ELSE s.recentOrchestras,
        !.hist.dupOffered = s.hist.dupOffered \/ dup,
        !.prevKey = IF lk # NoKey THEN lk ELSE s.prevKey]
emitTanda(s, chosen, seconds, dup) ==
  LET tanda == [style |-> curSlot(s).style, role |-> curSlot(s).role,
                tracks |-> chosen, seconds |-> seconds,
                slot |-> s.slotIx, size |-> curSlot(s).size,
                path |-> s.path, sent |-> s.lad.last.cands]
      lk == keyToCamelot(chosen[Len(chosen)])
  IN [s EXCEPT
        !.tandasResolved = Append(s.tandasResolved, tanda),
        !.remainingSeconds = s.remainingSeconds - seconds,
        !.recentOrchestras = IF s.path = "origin"
                             THEN Append(s.recentOrchestras, s.targetOrchestra)
                             ELSE s.recentOrchestras,
        !.out = Append(s.out,
                  Ev("tanda", [index |-> Len(s.tandasResolved) + 1,
                               remainingSeconds |-> s.remainingSeconds - seconds,
                               tanda |-> tanda])),
        !.hist.dupOffered = s.hist.dupOffered \/ dup,
        !.prevKey = IF lk # NoKey THEN lk ELSE s.prevKey]

\* planOneTandaWithRetry has returned s.lad.last
afterLadder(s0) ==
  \E s \in {s0} :
  \E next \in {s.lad.last} :
  \E res \in {IF s.path = "origin"
              THEN resolveOrigin(next.trackIds, s.usedIds, <<>>, s.workingSet,
                                 s.targetOrchestra)
              ELSE resolveFallback(next.trackIds, s.usedIds, <<>>, s.workingSet)} :
  \E chosen \in {padTracks(res.chosen, curSlot(s).size)} :
  \E seconds \in {tandaSecondsOf(chosen)} :
  \E s1 \in {[s EXCEPT !.usedIds = res.used]} :
    IF s.path = "origin"
    THEN IF admitOrigin(chosen, seconds, s.remainingSeconds)
         THEN nextSlot(emitTanda(s1, chosen, seconds,
                                 offeredDuplicate(next.trackIds, s.usedIds)))
         ELSE startFallback(s1)
    ELSE IF admitFallback(chosen, seconds, s.remainingSeconds)
         THEN nextSlot(emitTanda(s1, chosen, seconds,
                                 offeredDuplicate(next.trackIds, s.usedIds)))
         ELSE nextSlot(s1)

\* a planning call has returned r (NoResult when it threw)
afterPlan(s, r) ==
  \E l2 \in {ladderStep(s.lad, r)} :
    IF l2.phase = "return"
    THEN afterLadder([s EXCEPT !.lad = l2,
                               !.hist.ladderLen = Len(l2.last.trackIds),
                               !.hist.ladderSize = l2.size,
                               !.hist.ladderReal = countReal(l2.last),
                               !.hist.ladderWarned = l2.last.warned,
                               !.hist.ladderCalls = l2.calls])
    ELSE Commit([s EXCEPT !.lad = l2,
                          !.hist.slotCalls = s.hist.slotCalls + 1,
                          !.hist.pending = Append(s.hist.pending, s.slotIx)])


\* ------------------------------------------------------------ listCortinas
DEFAULT_GENRES == {"jazz", "swing", "country", "rock", "pop", "electro",
                   "lounge", "blues"}
DanceGenres == {"tango", "vals", "milonga"}

toCortinaRow(t) ==
  [id |-> getId(t),
   seconds |-> IF durationSec(t) = 0 THEN DefaultCortinaSeconds ELSE durationSec(t)]

cortinaPool(lib) ==
  LET withId == SelectSeq(lib, LAMBDA t : getId(t) # Null)
      wanted == SelectSeq(withId, LAMBDA t :
                  t.genre \in DEFAULT_GENRES /\ t.genre \notin DanceGenres)
      relaxed == SelectSeq(withId, LAMBDA t : t.genre \notin DanceGenres)
      pool == IF Len(wanted) > 0 THEN wanted ELSE relaxed
  IN [k \in DOMAIN pool |-> toCortinaRow(pool[k])]

\* the orders shuffled(pool) can produce
Shuffles(pool) ==
  {[k \in DOMAIN pool |-> pool[f[k]]] :
     f \in {g \in [DOMAIN pool -> DOMAIN pool] :
              \A a, b \in DOMAIN pool : g[a] = g[b] => a = b}}

\* listCortinas({ tandasCount, includeFinal: false, shuffle: true }) for the
\* shuffled order `base`
listCortinas(base, tandasCount) ==
  LET target == Max(0, tandasCount - 1) IN
  IF Len(base) = 0 \/ target = 0 THEN <<>>
  ELSE IF target <= Len(base) THEN SubSeq(base, 1, target)
  ELSE [k \in 1..target |-> base[((k - 1) % Len(base)) + 1]]

\* planBlocks: group k followed, except after the last one, by a filler
RECURSIVE planBlocks(_, _, _)
planBlocks(tandas, cortinas, k) ==
  IF k > Len(tandas) THEN <<>>
  ELSE LET td == tandas[k]
           tb == [type |-> "tanda", size |-> Len(td.tracks),
                  tracks |-> td.tracks, seconds |-> td.seconds, id |-> Null]
           c == IF Len(cortinas) > 0
                THEN cortinas[((k - 1) % Len(cortinas)) + 1]
                ELSE [id |-> Null, seconds |-> DefaultCortinaSeconds]
           cb == [type |-> "cortina", size |-> 1, tracks |-> <<>>,
                  seconds |-> c.seconds, id |-> c.id]
       IN IF k < Len(tandas)
          THEN <<tb, cb>> \o planBlocks(tandas, cortinas, k + 1)
          ELSE <<tb>>

RECURSIVE SumTrackCount(_)
SumTrackCount(tandas) ==
  IF tandas = <<>> THEN 0
  ELSE Len(Head(tandas).tracks) + SumTrackCount(Tail(tandas))

RECURSIVE SumTrackSecs(_)
SumTrackSecs(tandas) ==
  IF tandas = <<>> THEN 0
  ELSE SumSeconds(Head(tandas).tracks) + SumTrackSecs(Tail(tandas))

\* Math.round(totalTrackSecs / trackCount), 0 without tracks
avgTrackLenSec(totalTrackSecs, trackCount) ==
  IF trackCount = 0 THEN 0
  ELSE (2 * totalTrackSecs + trackCount) \div (2 * trackCount)

summarize(resolved) ==
  [tandaCount |-> Len(resolved),
   trackCount |-> SumTrackCount(resolved),
   totalTrackSecs |-> SumTrackSecs(resolved),
   avgTrackLenSec |-> avgTrackLenSec(SumTrackSecs(resolved), SumTrackCount(resolved))]

emptyTandas(resolved) ==
  SelectSeq(resolved, LAMBDA td : realTrackCount(td.tracks) = 0)

\* realTracks.length >= Math.max(1, td.tracks.length * 0.5)
goodTandas(resolved) ==
  SelectSeq(resolved, LAMBDA td :
    /\ realTrackCount(td.tracks) >= 1
    /\ 2 * realTrackCount(td.tracks) >= Len(td.tracks))

\* listCortinas has returned: plan blocks, warning, quality, summary, done
finishRun(s, cortinas) ==
  \E resolved \in {s.tandasResolved} :
  \E empties \in {Len(emptyTandas(resolved))} :
  \E warn \in {IF empties > 0
               THEN <<Ev("warning", [emptyTandas |-> empties])>>
               ELSE <<>>} :
    Commit([s EXCEPT
        !.pc = "done",
        !.out = s.out \o warn \o
                << Ev("quality", [goodTandas |-> Len(goodTandas(resolved)),
                                  totalTandas |-> Len(resolved)]),
                   Ev("summary", summarize(resolved)),
                   Ev("done", [tandas |-> planBlocks(resolved, cortinas, 1),
                               cortinas |-> cortinas]) >>])

\* ----------------------------------------------------------------- actions
OracleAnswers ==
  UNION {[1..n -> OracleIds] : n \in MinAnswerLen..Min(MaxAnswerLen, SchemaMaxLen)}

OracleRankings ==
  UNION {[1..n -> OracleOrchestras] : n \in 1..MaxSuggestions}

\* a generation request that has arrived and not started
IdleRun(b) ==
  [body |-> b, pc |-> "idle", workingSet |-> <<>>, slots |-> <<>>,
   usedIds |-> {}, tandasResolved |-> <<>>, remainingSeconds |-> 0,
   recentOrchestras |-> <<>>, prevKey |-> NoKey, slotIx |-> 1,
   path |-> "none", targetOrchestra |-> NoOrch, profiles |-> <<>>,
   lad |-> NoLadder, out |-> <<>>, hist |-> NoHist]

RunIs(s) ==
  /\ body = s.body
  /\ pc = s.pc
  /\ workingSet = s.workingSet
  /\ slots = s.slots
  /\ usedIds = s.usedIds
  /\ tandasResolved = s.tandasResolved
  /\ remainingSeconds = s.remainingSeconds
  /\ recentOrchestras = s.recentOrchestras
  /\ prevKey = s.prevKey
  /\ slotIx = s.slotIx
  /\ path = s.path
  /\ targetOrchestra = s.targetOrchestra
  /\ profiles = s.profiles
  /\ lad = s.lad
  /\ out = s.out
  /\ hist = s.hist

\* no second generation request, no replace request, no retryTanda request
NoRun == [pc |-> "none"]
NoReplace == [pc |-> "none"]
NoRetry == [pc |-> "none"]

Bodies ==
  {[minutes |-> m, catalog |-> c, slots |-> sl] :
     m \in MinutesChoices, c \in CatalogChoices, sl \in SlotsChoices}

Init ==
  /\ LIBRARY = Library0
  /\ \E b \in Bodies : RunIs(IdleRun(b))
  /\ parked = NoRun
  /\ connected = TRUE
  /\ rp = NoReplace
  /\ rt = NoRetry

\* POST /api/agent/generate/ndjson arrives
Begin ==
  /\ pc = "idle"
  /\ \E cur \in {Cur} : startRun(cur)
  /\ UNCHANGED outside

\* suggestNextOrchestras resolves with a schema-valid ranking
RankAnswers ==
  /\ pc = "rank"
  /\ \E cur \in {awaited(Cur)} : \E sug \in OracleRankings : afterRank(cur, sug)
  /\ UNCHANGED outside

\* suggestNextOrchestras rejects
RankFails ==
  /\ pc = "rank"
  /\ startFallback(awaited(Cur))
  /\ UNCHANGED outside

\* run(nextTandaAgent) resolves with a schema-valid answer
PlanAnswers ==
  /\ pc = "plan"
  /\ \E cur \in {awaited(Cur)}, sent \in {ladderSent(lad)} :
       \E ans \in OracleAnswers :
         \E r \in {planOneTandaResult(ans, lad.size, sent)} : afterPlan(cur, r)
  /\ UNCHANGED outside

\* run(nextTandaAgent) rejects (transport error, schema violation)
PlanFails ==
  /\ pc = "plan"
  /\ \E cur \in {awaited(Cur)} : afterPlan(cur, NoResult)
  /\ UNCHANGED outside

\* listCortinas resolves
Finish ==
  /\ pc = "cortinas"
  /\ \E cur \in {Cur}, pool \in {cortinaPool(LIBRARY)} :
       \E base \in Shuffles(pool) :
         \E cortinas \in {listCortinas(base, Len(tandasResolved))} :
           finishRun(cur, cortinas)
  /\ UNCHANGED outside

Next == Begin \/ RankAnswers \/ RankFails \/ PlanAnswers \/ PlanFails \/ Finish

Spec == Init /\ [][Next]_vars


\* the variables of the running generation request
runVars == << body, pc, workingSet, slots, usedIds, tandasResolved,
              remainingSeconds, recentOrchestras, prevKey, slotIx, path,
              targetOrchestra, profiles, lad, out, hist >>


\* ------------------------------------ the library reloaded during a run
IdN == <<"n", ".", "m">>

\* setLibrary(tracksArray): another library, with another filler track
Library1 ==
  << Track(IdA, "O1", "tango", 100, 1940, "8A"),
     Track(IdD, "O2", "tango", 100, 1940, "8B"),
     Track(IdN, "O5", "swing", 70, 2001, "") >>

\* addToLibrary(tracksArray): the tracks pushed onto the library
AddedTracks == << Track(IdN, "O5", "swing", 70, 2001, "") >>

\* LIBRARY = tracksArray, while the generation handler is suspended at an
\* oracle call
SetLibrary ==
  /\ pc \in {"rank", "plan"}
  /\ LIBRARY = Library0
  /\ LIBRARY' = Library1
  /\ UNCHANGED << runVars, parked, connected, rp, rt >>

\* LIBRARY.push(...tracksArray), while the generation handler is suspended
AddToLibrary ==
  /\ pc \in {"rank", "plan"}
  /\ LIBRARY = Library0
  /\ LIBRARY' = LIBRARY \o AddedTracks
  /\ UNCHANGED << runVars, parked, connected, rp, rt >>

NextReload == Next \/ SetLibrary \/ AddToLibrary

SpecReload == Init /\ [][NextReload]_vars


\* ------------------------------------------- the consumer disconnects
\* The client closes the NDJSON stream while the handler is suspended at an
\* oracle call.  The handler registers no 'close' listener and never looks at
\* the state of the response: `connected` is read by no handler.
Disconnect ==
  /\ connected
  /\ pc \in {"rank", "plan"}
  /\ connected' = FALSE
  /\ UNCHANGED << runVars, LIBRARY, parked, rp, rt >>

NextDisconnect == Next \/ Disconnect

SpecDisconnect == Init /\ [][NextDisconnect]_vars


\* --------------------------------------- an oracle call never responds
\* `await run(agent, items, { maxTurns: 1 })` is given no timeout and no abort
\* signal, and the handlers race it against nothing: when the promise never
\* settles the handler stays suspended at its await ("hung") for good.
NeverResponds ==
  /\ pc \in {"rank", "plan"}
  /\ pc' = "hung"
  /\ UNCHANGED << body, workingSet, slots, usedIds, tandasResolved,
                  remainingSeconds, recentOrchestras, prevKey, slotIx, path,
                  targetOrchestra, profiles, lad, out, hist >>
  /\ UNCHANGED outside

NextHang == Next \/ NeverResponds

SpecHang == Init /\ [][NextHang]_vars


\* ------------------------------------- two generation requests interleaved
\* The second request is `parked`: its locals while its handler is suspended.
\* Node runs one handler at a time, from one await to the next; Switch is the
\* event loop turning from the suspended handler of one request to the other.
FirstBody ==
  [minutes |-> 7, catalog |-> CatalogFull, slots |-> << Slot("Tango", "", 2) >>]
SecondBody ==
  [minutes |-> 5, catalog |-> CatalogFull, slots |-> << Slot("Vals", "", 2) >>]

\* usedIds, markUsed, isUsed, remainingSeconds, tandasResolved,
\* recentOrchestras and prevKey are declared inside the handler: a resumed
\* handler sees the locals it was suspended with
resumeShared(saved, other) ==
  [saved EXCEPT !.usedIds = other.usedIds,
                !.recentOrchestras = other.recentOrchestras,
                !.prevKey = other.prevKey,
                !.remainingSeconds = other.remainingSeconds]
resumeRun(saved, other) == saved

Switch ==
  /\ parked # NoRun
  /\ \E cur \in {Cur} :
       /\ parked' = cur
       /\ Commit(resumeRun(parked, cur))
  /\ UNCHANGED << LIBRARY, connected, rp, rt >>

InitTwo ==
  /\ LIBRARY = Library0
  /\ RunIs(IdleRun(FirstBody))
  /\ parked = IdleRun(SecondBody)
  /\ connected = TRUE
  /\ rp = NoReplace
  /\ rt = NoRetry

NextTwo == Next \/ Switch

SpecTwo == InitTwo /\ [][NextTwo]_vars


\* ------------------------------------------------- POST /api/agent/replace
\* longest suggestions list of a replaceAgent answer explored
MaxSuggestionIds == 1

TopKDefault == 6
ReplaceSlimMin == 80
ReplaceStrictMin == 3
KeyCostCap == 4
CamelotUnknown == 99
CamelotWheel == 24

ReplaceRequests ==
  {[catalog |-> c, style |-> st, orchestra |-> o, homogenize |-> h,
    avoidIds |-> a, previouslySelected |-> pv, topK |-> TopKDefault,
    prevKey |-> pk, nextKey |-> NoKey] :
     c \in CatalogChoices, st \in {"Tango", "Vals", ""},
     o \in {NoOrch, "O1"}, h \in BOOLEAN,
     a \in {<<>>, <<IdA>>, <<IdAVariant, IdD>>, <<IdA, IdB, IdC>>},
     pv \in {<<>>, <<IdB>>}, pk \in {NoKey, "8A"}}

\* what replaceAgent may answer: ReplacementResult
ReplaceOracleAnswers ==
  {[ok |-> TRUE, chosenId |-> c, suggestions |-> sg] :
     c \in OracleIds,
     sg \in UNION {[1..n -> OracleIds] : n \in 1..MaxSuggestionIds}}

NoAnswer == [ok |-> FALSE, chosenId |-> Null, suggestions |-> <<>>]

\* history of the broadening block: whether it was entered and which of its
\* steps changed the pool
NoWiden == [entered |-> FALSE, steps |-> <<>>]

NoMetadata == [broadeningApplied |-> FALSE, originalPool |-> 0, finalPool |-> 0,
               previouslySelectedCount |-> 0, orchestraRestricted |-> FALSE]

\* the request, what the handler holds across its await (avoid sets, working
\* set, slim candidates), the oracle's answer (history) and the response
ReplaceState(req) ==
  [pc |-> "idle", req |-> req, avoid |-> {}, prev |-> {}, ws |-> <<>>,
   slim |-> <<>>, answer |-> NoAnswer, status |-> 0, replacement |-> Null,
   suggestions |-> <<>>, pool |-> <<>>, final |-> <<>>, widen |-> NoWiden,
   metadata |-> NoMetadata]

replaceRespond(st, status, replacement, suggestions) ==
  rp' = [st EXCEPT !.pc = "done", !.status = status,
                   !.replacement = replacement, !.suggestions = suggestions]

\* keysExact = new Set(ids), keysNoExt = new Set(idsNoExt)
catalogKeys(catalog) ==
  {[exact |-> e, noExt |-> {stripExt(x) : x \in e}] :
     e \in {extractCatalogIds(catalog)}}

inCatalogKeys(keys, n) == n \in keys.exact \/ stripExt(n) \in keys.noExt

replaceWorkingSet(lib, catalog) ==
  CHOOSE r \in {SelectSeq(lib, LAMBDA t :
                  getId(t) # Null /\ inCatalogKeys(keys, norm(getId(t)))) :
                keys \in catalogKeys(catalog)} : TRUE

idKeyOf(t) == matchKeyOf(getId(t))

getCompatibleStyles(mainStyle) ==
  CASE mainStyle = "tango" -> {"tango", "vals", "milonga"}
    [] mainStyle = "vals" -> {"vals", "tango"}
    [] mainStyle = "milonga" -> {"milonga", "tango"}
    [] OTHER -> {mainStyle}

IndexOf(q, x) ==
  IF \E k \in DOMAIN q : q[k] = x
  THEN CHOOSE k \in DOMAIN q : q[k] = x /\ \A j \in 1..(k - 1) : q[j] # x
  ELSE 0

wheelDistance(i, j) ==
  IF i = 0 \/ j = 0 THEN CamelotUnknown
  ELSE Min(Abs(i - j), CamelotWheel - Abs(i - j))

camelotDistance(k1, k2) ==
  IF k1 = NoKey \/ k2 = NoKey THEN CamelotUnknown
  ELSE wheelDistance(IndexOf(CAMELOT_ORDER, k1), IndexOf(CAMELOT_ORDER, k2))

keyCost(neighbor, cam) ==
  IF neighbor # NoKey THEN Min(KeyCostCap, camelotDistance(neighbor, cam)) ELSE 0

\* score(t): the key cost; the tracks of the model carry no BPM and no energy
replaceScore(t, pk, nk) == keyCost(pk, keyToCamelot(t)) + keyCost(nk, keyToCamelot(t))

\* base.map(t => ({t, s: score(t)})).sort((a, b) => a.s - b.s): rows <<s, t>>
RECURSIVE InsertByScore(_, _)
InsertByScore(sorted, row) ==
  IF sorted = <<>> THEN <<row>>
  ELSE IF row[1] < sorted[Len(sorted)][1]
       THEN Append(InsertByScore(SubSeq(sorted, 1, Len(sorted) - 1), row),
                   sorted[Len(sorted)])
       ELSE Append(sorted, row)

RECURSIVE SortRows(_)
SortRows(rows) ==
  IF rows = <<>> THEN <<>>
  ELSE CHOOSE r \in {InsertByScore(front, rows[Len(rows)]) :
                       front \in {SortRows(SubSeq(rows, 1, Len(rows) - 1))}} : TRUE

SortByScore(q, pk, nk) ==
  CHOOSE r \in {[k \in DOMAIN sorted |-> sorted[k][2]] :
                  sorted \in {SortRows([k \in DOMAIN q |->
                                          <<replaceScore(q[k], pk, nk), q[k]>>])}} : TRUE

\* homogenize: the most frequent artist among the resolvable avoidIds, the
\* first one seen on a tie
mostFrequent(arts) ==
  IF arts = <<>> THEN NoOrch
  ELSE arts[CHOOSE k \in DOMAIN arts :
              /\ \A j \in DOMAIN arts :
                   Cardinality({i \in DOMAIN arts : arts[i] = arts[j]})
                     <= Cardinality({i \in DOMAIN arts : arts[i] = arts[k]})
              /\ \A j \in 1..(k - 1) :
                   Cardinality({i \in DOMAIN arts : arts[i] = arts[j]})
                     < Cardinality({i \in DOMAIN arts : arts[i] = arts[k]})]

artistsOfHits(hits) == [k \in DOMAIN hits |-> trackArtist(hits[k][1])]

dominantOrchestra(ws, avoidIds) ==
  CHOOSE r \in {mostFrequent(arts) :
                  arts \in {artistsOfHits(SelectSeq(
                              [k \in DOMAIN avoidIds |-> resolveByAnyId(ws, avoidIds[k])],
                              LAMBDA hit : hit # <<>>))}} : TRUE

replaceTargetOrchestra(ws, req) ==
  IF req.homogenize THEN dominantOrchestra(ws, req.avoidIds)
  ELSE req.orchestra

keyExcluded(avoid, prev, key) == key \in avoid \/ key \in prev

\* the strict same-orchestra narrowing of the style candidates
replaceNarrow(base0, target, req) ==
  CHOOSE r \in {IF target # NoOrch /\ Len(req.previouslySelected) = 0
                   /\ Len(strict) >= Min(ReplaceStrictMin, req.topK)
                THEN strict ELSE base0 :
                strict \in {SelectSeq(base0, LAMBDA t : trackArtist(t) = target)}} : TRUE

\* the broadening steps 2 and 3: compatible styles, then any genre
replaceWiden(free, start, expanded, topK) ==
  IF Len(start) < Max(1, topK) /\ Len(expanded) > Len(start)
  THEN (IF Len(expanded) = 0 THEN free ELSE expanded)
  ELSE (IF Len(start) = 0 THEN free ELSE start)

\* if ((base.length === 0) || (base.length < topK && needsBroadening))
needsWidening(base, req) ==
  Len(base) = 0 \/ (Len(base) < req.topK /\ Len(req.previouslySelected) > 0)

\* which steps of the broadening block replace the pool
widenSteps(target, start, expanded, topK) ==
  (IF target # NoOrch THEN <<"origin">> ELSE <<>>)
    \o (IF Len(start) < Max(1, topK) /\ Len(expanded) > Len(start)
        THEN <<"styles">> ELSE <<>>)
    \o (IF Len(start) = 0 /\ ~(Len(start) < Max(1, topK) /\ Len(expanded) > Len(start))
        THEN <<"any">> ELSE <<>>)

\* responseMetadata
responseMetadata(st) ==
  [broadeningApplied |-> Len(st.req.previouslySelected) > 0,
   originalPool |-> Len(st.ws),
   finalPool |-> Len(st.final),
   previouslySelectedCount |-> Cardinality(st.prev),
   orchestraRestricted |-> replaceTargetOrchestra(st.ws, st.req) # NoOrch
                             /\ Len(st.req.previouslySelected) = 0]

\* the oracle's primary id is in avoidSet or previouslySelectedSet
chosenAcceptedAlways(avoid, prev, id) == FALSE
chosenRejected(avoid, prev, id) == keyExcluded(avoid, prev, matchKeyOf(id))

suggestionOk(st, rkey, key) == ~keyExcluded(st.avoid, st.prev, key) /\ key # rkey

idOrSelf(hit, id) == IF hit # <<>> THEN getId(hit[1]) ELSE id

\* suggestionsOut topped up from the slim candidates when shorter than topK
toppedUp(first, more, topK) ==
  IF Len(first) < topK THEN first \o Slice(more, topK - Len(first)) ELSE first

\* from `const chosen = resolveId(chosenId) || resolveId(slim[0].id)` on
replaceFinish(st, chosenId, suggestions) ==
  \E byChosen \in {resolveByAnyId(st.ws, chosenId)} :
  \E chosen \in {IF byChosen # <<>> THEN byChosen
                 ELSE resolveByAnyId(st.ws, getId(st.slim[1]))} :
    IF chosen = <<>> THEN replaceRespond(st, 500, Null, <<>>)
    ELSE \E rkey \in {idKeyOf(chosen[1])} :
         IF rkey \in st.avoid THEN replaceRespond(st, 500, Null, <<>>)
         ELSE \E kept \in {SelectSeq(suggestions, LAMBDA id :
                             suggestionOk(st, rkey, matchKeyOf(id)))} :
              \E first \in {Slice([k \in DOMAIN kept |->
                                     idOrSelf(resolveByAnyId(st.ws, kept[k]), kept[k])],
                                  st.req.topK)} :
              \E firstKeys \in {toSet(Range(first))} :
              \E more \in {SelectSeq(st.slim, LAMBDA t :
                             suggestionOk(st, rkey, idKeyOf(t))
                             /\ idKeyOf(t) \notin firstKeys)} :
                replaceRespond([st EXCEPT !.metadata = responseMetadata(st)],
                               200, getId(chosen[1]),
                               toppedUp(first, IdsOf(more), st.req.topK))

\* catch (err): a random pick among the valid slim candidates, the suggestions
\* the first slim candidates other than the pick
fallbackAnswers(st, valid) ==
  {[chosenId |-> getId(valid[k]),
    suggestions |-> SelectSeq(IdsOf(Slice(st.slim, Min(st.req.topK, TopKDefault))),
                              LAMBDA id : id # getId(valid[k]))] :
     k \in DOMAIN valid}

validOrAll(valid, slim) == IF Len(valid) = 0 THEN slim ELSE valid

replaceFallbackPicks(st) ==
  UNION {fallbackAnswers(st, valid) :
           valid \in {validOrAll(SelectSeq(st.slim, LAMBDA t :
                                   ~keyExcluded(st.avoid, st.prev, idKeyOf(t))),
                                 st.slim)}}

\* the handler from the return of `await run(replaceAgent, ...)` on
replaceAfterOracle(st) ==
  \E picks \in {IF st.answer.ok
                   /\ ~chosenRejected(st.avoid, st.prev, st.answer.chosenId)
                THEN {[chosenId |-> st.answer.chosenId,
                       suggestions |-> st.answer.suggestions]}
                ELSE replaceFallbackPicks(st)} :
    \E pick \in picks : replaceFinish(st, pick.chosenId, pick.suggestions)

\* the handler up to `await run(replaceAgent, ...)`
replaceStart(st) ==
  \E req \in {st.req} :
    IF req.catalog = NoCatalog \/ Len(req.catalog) = 0
    THEN replaceRespond(st, 422, Null, <<>>)
    ELSE IF req.style = "" THEN replaceRespond(st, 400, Null, <<>>)
    ELSE \E avoid \in {toSet(Range(req.avoidIds))} :
         \E prev \in {toSet(Range(req.previouslySelected))} :
         \E ws \in {replaceWorkingSet(LIBRARY, req.catalog)} :
         IF Len(ws) = 0 THEN replaceRespond(st, 422, Null, <<>>)
         ELSE \E free \in {SelectSeq(ws, LAMBDA t :
                             ~keyExcluded(avoid, prev, idKeyOf(t)))} :
              \E base0 \in {SelectSeq(free, LAMBDA t : hasStyle(t, req.style))} :
              \E target \in {replaceTargetOrchestra(ws, req)} :
              \E base1 \in {replaceNarrow(base0, target, req)} :
              \E expanded \in {SelectSeq(free, LAMBDA t :
                                  t.genre \in getCompatibleStyles(StyleLower(req.style)))} :
              \E widen \in {IF needsWidening(base1, req)
                            THEN [entered |-> TRUE,
                                  steps |-> widenSteps(target,
                                              IF target # NoOrch THEN base0 ELSE base1,
                                              expanded, req.topK)]
                            ELSE NoWiden} :
              \E wide \in {IF needsWidening(base1, req)
                           THEN replaceWiden(free,
                                  IF target # NoOrch THEN base0 ELSE base1,
                                  expanded, req.topK)
                           ELSE base1} :
              \E slim \in {Slice(SortByScore(wide, req.prevKey, req.nextKey),
                                 Max(ReplaceSlimMin, req.topK))} :
                IF Len(slim) = 0 THEN replaceRespond(st, 404, Null, <<>>)
                ELSE rp' = [st EXCEPT !.pc = "await", !.avoid = avoid,
                                      !.prev = prev, !.ws = ws, !.slim = slim,
                                      !.pool = base1, !.final = wide,
                                      !.widen = widen]

ReplaceBegin ==
  /\ rp.pc = "idle"
  /\ \E st \in {rp} : replaceStart(st)
  /\ UNCHANGED << runVars, LIBRARY, parked, connected, rt >>

\* run(replaceAgent) resolves with a schema-valid answer
ReplaceAnswers ==
  /\ rp.pc = "await"
  /\ \E ans \in ReplaceOracleAnswers :
       \E st \in {[rp EXCEPT !.answer = ans]} : replaceAfterOracle(st)
  /\ UNCHANGED << runVars, LIBRARY, parked, connected, rt >>

\* run(replaceAgent) rejects, or its output does not parse
ReplaceFails ==
  /\ rp.pc = "await"
  /\ \E st \in {rp} : replaceAfterOracle(st)
  /\ UNCHANGED << runVars, LIBRARY, parked, connected, rt >>

InitReplace ==
  /\ LIBRARY = Library0
  /\ \E b \in Bodies : b.catalog = CatalogFull /\ RunIs(IdleRun(b))
  /\ parked = NoRun
  /\ connected = TRUE
  /\ \E req \in ReplaceRequests :
       rp = ReplaceState(req)
  /\ rt = NoRetry

NextReplace == ReplaceBegin \/ ReplaceAnswers \/ ReplaceFails

SpecReplace == InitReplace /\ [][NextReplace]_vars


\* -------------------------------------------- POST /api/agent/retryTanda
RetryMinOrchestras == 5
RetrySmallWorkingSet == 50
RetryMaxAlternatives == 3
RetryMaxRetries == 2
RetryDefaultSize == 4

\* currentPlaylist is given by the ids of its tracks
RetryRequests ==
  {[hasFields |-> f, catalog |-> c,
    currentTanda |-> [orchestra |-> o, style |-> "Tango", trackCount |-> n],
    avoidOrchestras |-> av, currentPlaylist |-> pl] :
     f \in BOOLEAN, c \in CatalogChoices, o \in {"O1", "O2"}, n \in {0, 2},
     av \in {<<>>, <<"O2", "O4">>}, pl \in {<<>>, <<IdA, IdB>>}}

\* the request, what the handler holds across its awaits and the one event
\* it sends: "success" with the ids of the tracks of the new tanda, or "error"
RetryState(req) ==
  [pc |-> "idle", req |-> req, alts |-> <<>>, candidates |-> <<>>,
   profiles |-> <<>>, currentTrackIds |-> {}, i |-> 0, lad |-> NoLadder,
   event |-> "none", tracks |-> <<>>]

retrySend(st, event, tracks) ==
  rt' = [st EXCEPT !.pc = "done", !.event = event, !.tracks = tracks]

LastSlash(p) ==
  IF \E k \in DOMAIN p : p[k] = "/"
  THEN CHOOSE k \in DOMAIN p : p[k] = "/" /\ \A j \in (k + 1)..Len(p) : p[j] # "/"
  ELSE 0

\* id.split('/').pop() || id
fileNameOf(p) == IF LastSlash(p) = Len(p) THEN p ELSE SubSeq(p, LastSlash(p) + 1, Len(p))

EndsWith(p, suffix) ==
  Len(suffix) <= Len(p) /\ SubSeq(p, Len(p) - Len(suffix) + 1, Len(p)) = suffix

FirstWhere(q, hits) ==
  IF hits = {} THEN <<>>
  ELSE << q[CHOOSE k \in hits : \A j \in hits : k <= j] >>

\* candidates.find by exact id, else by file name or path suffix; the tracks
\* found, in the order of the ids, the unresolved ones dropped
retryFind(candidates, id) ==
  CHOOSE r \in {IF exact # <<>> THEN exact
                ELSE FirstWhere(candidates, {k \in DOMAIN candidates :
                       \/ fileNameOf(getId(candidates[k])) = fileNameOf(id)
                       \/ EndsWith(getId(candidates[k]), <<"/">> \o id)
                       \/ EndsWith(getId(candidates[k]), id)}) :
                exact \in {FirstWhere(candidates,
                             {k \in DOMAIN candidates : getId(candidates[k]) = id})}} : TRUE

RECURSIVE retryTracks(_, _)
retryTracks(candidates, ids) ==
  IF ids = <<>> THEN <<>>
  ELSE IdsOf(retryFind(candidates, Head(ids))) \o retryTracks(candidates, Tail(ids))

retryLadder(st, k) ==
  [ladderStart(IF st.req.currentTanda.trackCount = 0 THEN RetryDefaultSize
               ELSE st.req.currentTanda.trackCount,
               st.candidates, st.candidates, st.alts[k], st.profiles)
     EXCEPT !.maxRetries = RetryMaxRetries]

\* the handler up to its first `await planOneTandaWithRetry(...)`
retryStart(st) ==
  \E req \in {st.req} :
    IF ~req.hasFields \/ req.catalog = NoCatalog THEN retrySend(st, "error", <<>>)
    ELSE \E ws \in {buildWorkingSet(LIBRARY, req.catalog)} :
         IF Len(ws) = 0 THEN retrySend(st, "error", <<>>)
         ELSE \E wsNames \in {DistinctArtists(ws, {})} :
              \E available \in {IF Len(wsNames) < RetryMinOrchestras
                                THEN DistinctArtists(LIBRARY, {}) ELSE wsNames} :
              \E avoid \in {{normalizeOrchestra(o) :
                               o \in {req.currentTanda.orchestra}
                                       \cup Range(req.avoidOrchestras)} \ {NoOrch}} :
              \E alts \in {SelectSeq(available, LAMBDA o :
                             normalizeOrchestra(o) \notin avoid)} :
              IF Len(alts) = 0 THEN retrySend(st, "error", <<>>)
              ELSE \E source \in {IF Len(ws) < RetrySmallWorkingSet
                                  THEN LIBRARY ELSE ws} :
                   \E st1 \in {[st EXCEPT
                          !.alts = alts,
                          !.candidates = SelectSeq(source, LAMBDA t :
                                           hasStyle(t, req.currentTanda.style)),
                          !.profiles = buildOrchestraProfiles(source),
                          !.currentTrackIds = Range(req.currentPlaylist),
                          !.i = 1]} :
                     rt' = [st1 EXCEPT !.pc = "await", !.lad = retryLadder(st1, 1)]

\* the handler from the return of one planning call of the ladder on
retryAfterPlan(st, r) ==
  \E l2 \in {ladderStep(st.lad, r)} :
    IF l2.phase # "return" THEN rt' = [st EXCEPT !.lad = l2]
    ELSE IF countReal(l2.last) > 0
    THEN retrySend([st EXCEPT !.lad = l2], "success",
                   retryTracks(st.candidates, l2.last.trackIds))
    ELSE IF st.i < Min(Len(st.alts), RetryMaxAlternatives)
    THEN \E st1 \in {[st EXCEPT !.i = st.i + 1]} :
           rt' = [st1 EXCEPT !.lad = retryLadder(st1, st1.i)]
    ELSE retrySend([st EXCEPT !.lad = l2], "error", <<>>)

RetryBegin ==
  /\ rt.pc = "idle"
  /\ \E st \in {rt} : retryStart(st)
  /\ UNCHANGED << runVars, LIBRARY, parked, connected, rp >>

\* run(nextTandaAgent) resolves with a schema-valid answer
RetryPlanAnswers ==
  /\ rt.pc = "await"
  /\ \E st \in {rt}, sent \in {ladderSent(rt.lad)} :
       \E ans \in OracleAnswers :
         \E r \in {planOneTandaResult(ans, st.lad.size, sent)} : retryAfterPlan(st, r)
  /\ UNCHANGED << runVars, LIBRARY, parked, connected, rp >>

\* run(nextTandaAgent) rejects
RetryPlanFails ==
  /\ rt.pc = "await"
  /\ \E st \in {rt} : retryAfterPlan(st, NoResult)
  /\ UNCHANGED << runVars, LIBRARY, parked, connected, rp >>

InitRetry ==
  /\ LIBRARY = Library0
  /\ \E b \in Bodies : b.catalog = CatalogFull /\ RunIs(IdleRun(b))
  /\ parked = NoRun
  /\ connected = TRUE
  /\ rp = NoReplace
  /\ \E req \in RetryRequests : rt = RetryState(req)

NextRetry == RetryBegin \/ RetryPlanAnswers \/ RetryPlanFails

SpecRetry == InitRetry /\ [][NextRetry]_vars


\* ------------------------------------------------------------- properties
TandaEvents == SelectSeq(out, LAMBDA e : e.type = "tanda")

RECURSIVE SumBlockSeconds(_)
SumBlockSeconds(blocks) ==
  IF blocks = <<>> THEN 0
  ELSE Head(blocks).seconds + SumBlockSeconds(Tail(blocks))

DonePlan == out[Len(out)].data.tandas

\* all (group, position) pairs holding a real track
RealPositions ==
  {<<g, k>> \in (DOMAIN tandasResolved) \X (1..SchemaMaxLen) :
     k <= Len(tandasResolved[g].tracks) /\ isRealTrack(tandasResolved[g].tracks[k])}

\* C1: every group of a `tanda` event and of the final `done` plan has exactly
\* as many entries as the size of the slot it was planned for.
C1_GroupLengthIsSlotSize ==
  /\ \A k \in DOMAIN out :
       out[k].type = "tanda" =>
         Len(out[k].data.tanda.tracks) = out[k].data.tanda.size
  /\ pc = "done" =>
       \A g \in DOMAIN tandasResolved :
         \E b \in DOMAIN DonePlan :
           /\ DonePlan[b].type = "tanda"
           /\ DonePlan[b].tracks = tandasResolved[g].tracks
           /\ DonePlan[b].size = tandasResolved[g].size

\* C2: across all groups of the plan every real track identity, compared by
\* matchKey, appears at most once.
C2_IdentityAtMostOnce ==
  \A p, q \in RealPositions :
    p # q =>
      matchKey(getId(tandasResolved[p[1]].tracks[p[2]]))
        # matchKey(getId(tandasResolved[q[1]].tracks[q[2]]))

\* a completed run with two groups in which the oracle had named an already
\* used identity, or one identity twice, for a group that was produced
C2_Witness ==
  /\ pc = "done"
  /\ Len(tandasResolved) >= 2
  /\ hist.dupOffered
  /\ \A g \in DOMAIN tandasResolved : realTrackCount(tandasResolved[g].tracks) >= 1

\* C3: the total duration of a completed sequence, groups and fillers, is at
\* most minutes*60 seconds plus one filler unit.
C3_TotalWithinBudget ==
  pc = "done" =>
    SumBlockSeconds(DonePlan) <= body.minutes * 60 + DefaultCortinaSeconds

\* C4: no track of a group has an identity outside the candidate list that was
\* sent to the oracle for the call that produced the group.
C4_OnlyListedCandidates ==
  \A g \in DOMAIN tandasResolved :
    \A k \in DOMAIN tandasResolved[g].tracks :
      isRealTrack(tandasResolved[g].tracks[k]) =>
        matchKey(getId(tandasResolved[g].tracks[k]))
          \in {matchKey(c) : c \in Range(tandasResolved[g].sent)}

\* C5: a run writes at most one terminal line (`done` or `error`), nothing
\* after it, a finished run has written it, and a `start` line precedes every
\* `tanda` line.
C5_OneTerminalEvent ==
  /\ \A k \in DOMAIN out : out[k].type \in {"done", "error"} => k = Len(out)
  /\ pc \in {"done", "error"} => Len(out) >= 1 /\ out[Len(out)].type = pc
  /\ pc \notin {"done", "error"} =>
       \A k \in DOMAIN out : out[k].type \notin {"done", "error"}
  /\ \A k \in DOMAIN out :
       out[k].type = "tanda" => \E j \in 1..(k - 1) : out[j].type = "start"

\* both terminal outcomes after groups were streamed
C5_Witness ==
  /\ pc = "done"
  /\ Len(TandaEvents) >= 2
  /\ out[1].type = "start"

\* C6: with an empty working set the run ends with an error: no oracle call
\* is issued, no `tanda` line is written and the run does not end with `done`.
C6_EmptyWorkingSetFails ==
  (pc # "idle" /\ body.catalog # NoCatalog /\ workingSet = <<>>) =>
    /\ pc = "error"
    /\ TandaEvents = <<>>

\* C7: with a non-empty working set no anomaly of slot planning writes an
\* `error` line.
C7_NoErrorFromPlanning ==
  workingSet # <<>> => \A k \in DOMAIN out : out[k].type # "error"

\* C8: no group made only of placeholders is emitted or kept in the plan.
C8_NoPlaceholderOnlyGroup ==
  /\ \A k \in DOMAIN out :
       out[k].type = "tanda" => realTrackCount(out[k].data.tanda.tracks) >= 1
  /\ \A g \in DOMAIN tandasResolved :
       realTrackCount(tandasResolved[g].tracks) >= 1

\* C9: the result of planOneTandaWithRetry carries exactly `size` track ids,
\* and carries a warning whenever fewer than `size` of them are real.
C9_LadderResultHasSizeIds ==
  hist.ladderLen # -1 =>
    /\ hist.ladderLen = hist.ladderSize
    /\ hist.ladderReal < hist.ladderSize => hist.ladderWarned

\* an upper bound on the number of resumptions a run still needs: it is 0 in
\* a finished run
LadderCallsMax == 1 + MaxRetriesDefault + 1
SlotCallsMax == 1 + 2 * LadderCallsMax

ladderStepsLeft(l) ==
  CASE l.phase = "first" -> l.maxRetries + 2
    [] l.phase = "retry" -> l.maxRetries + 2 - l.idx
    [] l.phase = "final" -> 1
    [] OTHER -> 0

RunStepsLeft ==
  LET n == Len(body.slots) IN
  CASE pc = "idle" -> 2 + SlotCallsMax * n + 1
    [] pc = "rank" -> 1 + SlotCallsMax * (n - slotIx) + SlotCallsMax
    [] pc = "plan" -> 1 + SlotCallsMax * (n - slotIx) + ladderStepsLeft(lad)
                        + (IF path = "origin" THEN LadderCallsMax ELSE 0)
    [] pc = "cortinas" -> 1
    [] OTHER -> 0

\* C10: a ladder issues at most 1 + maxRetries + 1 oracle calls and a slot at
\* most one ranking call and two ladders; an unfinished run is suspended
\* at a position that a returning or failing call resumes, and every
\* resumption strictly lowers a bound on the resumptions left, so the run
\* reaches `done` or `error` after boundedly many of them.
C10_BoundedCallsAndTermination ==
  /\ [](lad.calls <= LadderCallsMax)
  /\ [](hist.slotCalls <= SlotCallsMax)
  /\ [](RunStepsLeft >= 0 /\ (RunStepsLeft = 0 <=> pc \in {"done", "error"}))
  /\ [](pc \in {"idle", "rank", "plan", "cortinas", "done", "error"})
  /\ [][RunStepsLeft' < RunStepsLeft]_vars

\* a ladder that used every step: first attempt, maxRetries alternatives, and
\* the unrestricted attempt, out of more than maxRetries alternative origins
C10_Witness ==
  /\ pc = "plan"
  /\ lad.phase = "final"
  /\ lad.calls = 1 + MaxRetriesDefault + 1
  /\ Len(lad.alts) > MaxRetriesDefault

\* ------------------------------------------------ properties of the replace route
ReplaceAvoidSet == toSet(Range(rp.req.avoidIds))
ReplaceRejectedSet == toSet(Range(rp.req.previouslySelected))
ReplaceSucceeded == rp.pc = "done" /\ rp.status = 200

\* C11: in every successful replacement response neither the replacement nor
\* any suggestion has its normalized identity in avoidSet or in
\* previouslyRejectedSet, whatever the oracle answered and when its call failed
C11_ReplaceExcludesAvoided ==
  ReplaceSucceeded =>
    /\ matchKeyOf(rp.replacement) \notin ReplaceAvoidSet \cup ReplaceRejectedSet
    /\ \A k \in DOMAIN rp.suggestions :
         matchKeyOf(rp.suggestions[k]) \notin ReplaceAvoidSet \cup ReplaceRejectedSet

\* a success although the oracle proposed an avoided or rejected track both as
\* its primary choice and as its suggestion
C11_Witness ==
  /\ ReplaceSucceeded
  /\ rp.answer.ok
  /\ matchKeyOf(rp.answer.chosenId) \in ReplaceRejectedSet
  /\ matchKeyOf(rp.answer.suggestions[1]) \in ReplaceAvoidSet
  /\ Len(rp.suggestions) > 0

\* C12: the returned replacement is one of the slim candidates that were sent
\* to the oracle
C12_ReplacementFromPool ==
  ReplaceSucceeded =>
    \E k \in DOMAIN rp.slim : idKeyOf(rp.slim[k]) = matchKeyOf(rp.replacement)



\* ---------------------------------------------- properties of replanning
\* C13: replanning never reintroduces a used identity: the success event of
\* retryTanda carries no track whose identity is in the used set built from
\* the current playlist, and a group newly planned by a generation run holds
\* no track whose identity was in the used set accumulated before it
C13_ReplanningAvoidsUsed ==
  [][/\ (rt'.pc = "done" /\ rt'.event = "success") =>
          \A k \in DOMAIN rt'.tracks :
            ~isUsed(toSet(rt'.currentTrackIds), rt'.tracks[k])
     /\ Len(tandasResolved') = Len(tandasResolved) + 1 =>
          \A k \in DOMAIN tandasResolved'[Len(tandasResolved')].tracks :
            LET t == tandasResolved'[Len(tandasResolved')].tracks[k]
            IN isRealTrack(t) => ~isUsed(usedIds, getId(t))]_vars


RECURSIVE SumGroupSeconds(_)
SumGroupSeconds(groups) ==
  IF groups = <<>> THEN 0
  ELSE groups[1].seconds + SumGroupSeconds(Tail(groups))

RECURSIVE LastGroupKey(_)
LastGroupKey(groups) ==
  IF groups = <<>> THEN NoKey
  ELSE LET g == groups[Len(groups)]
           lk == keyToCamelot(g.tracks[Len(g.tracks)])
       IN IF lk # NoKey THEN lk
          ELSE LastGroupKey(SubSeq(groups, 1, Len(groups) - 1))

\* the request-scoped state s is what the events of its own run make it: the
\* budget is the requested one less its own groups, prevKey comes from its
\* own last group, the origin history has one entry per own origin group,
\* the used set holds the identities of its own groups, and its tanda events
\* are its own groups
OwnState(s) ==
  LET events == SelectSeq(s.out, LAMBDA e : e.type = "tanda")
      started == \E k \in DOMAIN s.out : s.out[k].type = "start"
  IN /\ s.remainingSeconds =
          (IF started THEN s.body.minutes * 60 ELSE 0)
          - SumGroupSeconds(s.tandasResolved)
     /\ s.prevKey = LastGroupKey(s.tandasResolved)
     /\ Len(s.recentOrchestras) =
          Len(SelectSeq(s.tandasResolved, LAMBDA g : g.path = "origin"))
     /\ \A k \in DOMAIN s.tandasResolved :
          /\ s.tandasResolved[k].style = s.body.slots[s.tandasResolved[k].slot].style
          /\ \A j \in DOMAIN s.tandasResolved[k].tracks :
               LET t == s.tandasResolved[k].tracks[j]
               IN isRealTrack(t) => isUsed(s.usedIds, getId(t))
     /\ Len(events) = Len(s.tandasResolved)
     /\ \A k \in DOMAIN events : events[k].data.tanda = s.tandasResolved[k]

DoneEvents == SelectSeq(out, LAMBDA e : e.type = "done")

\* C16: all library reads of one run observe one snapshot, also when
\* setLibrary or addToLibrary happens while the run is suspended: the working
\* set built at the start and the filler pool read at the end come from the
\* library as it was when the run started
C16_OneLibrarySnapshot ==
  /\ pc \notin {"idle", "error"} =>
       workingSet = buildWorkingSet(hist.snapshot, body.catalog)
  /\ pc = "done" =>
       \A k \in DOMAIN DoneEvents[1].data.cortinas :
         \E j \in DOMAIN cortinaPool(hist.snapshot) :
           cortinaPool(hist.snapshot)[j] = DoneEvents[1].data.cortinas[k]


\* ------------------------------------------- properties of a disconnect
\* C17: once the consumer has disconnected, the run issues no new oracle call
\* and plans no further slot
C17_StopsOnDisconnect ==
  [][~connected =>
       /\ hist'.pending = <<>> \/ Cur' = Cur
       /\ slotIx' = slotIx
       /\ Len(tandasResolved') = Len(tandasResolved)]_vars


\* ------------------------------------ properties of an unresponsive oracle
\* C18: an oracle call that never responds does not hang the run: the run is
\* never left suspended at that call, it has ended (done or error) or is at a
\* point from which its handler goes on (the start, a call that answers or
\* counts as a failed attempt, the filler listing)
C18_NoHang ==
  pc \in {"done", "error"} \/ pc \in {"idle", "rank", "plan", "cortinas"}


\* ------------------------------------------ properties of the event order
DoneGroups == SelectSeq(DoneEvents[1].data.tandas, LAMBDA b : b.type = "tanda")

Started == \E k \in DOMAIN out : out[k].type = "start"

YearOutsideRole(t, role) ==
  /\ role \in DOMAIN ROLE_RULES
  /\ effectiveYear(t) # 0
  /\ \/ effectiveYear(t) < ROLE_RULES[role].minYear
     \/ effectiveYear(t) > ROLE_RULES[role].maxYear

\* the unused tracks of the working set that have the style and whose year
\* lies in the range of the role
InRangeUnused(ws, used, style, role) ==
  SelectSeq(ws, LAMBDA t :
    /\ hasStyle(t, style)
    /\ effectiveYear(t) # 0
    /\ ~YearOutsideRole(t, role)
    /\ ~isUsed(used, getId(t)))

\* C21: a track whose reliable year lies outside the year range of the
\* slot's role is never placed in the slot's group while at least `size`
\* unused in-range tracks of the slot's style exist in the working set
C21_RoleYearRespected ==
  [][Len(tandasResolved') = Len(tandasResolved) + 1 =>
       LET g == tandasResolved'[Len(tandasResolved')]
       IN \A k \in DOMAIN g.tracks :
            (isRealTrack(g.tracks[k]) /\ YearOutsideRole(g.tracks[k], g.role)) =>
              Len(InRangeUnused(workingSet, usedIds, g.style, g.role)) < g.size]_vars


\* --------------------------------------------- the harmonic distance alone
\* the keys a track can carry: the 24 wheel positions, no key, and keys the
\* wheel does not list
KeyInputs == Range(CAMELOT_ORDER) \cup {NoKey, "13A", "8a"}

\* a pair of keys whose distance has not been computed yet
KeyPair(k1, k2) == [pc |-> "keys", k1 |-> k1, k2 |-> k2]

\* camelotDistance is applied to the pair, in both orders and to each key
\* with itself
Distance ==
  /\ rp.pc = "keys"
  /\ rp' = [pc |-> "distance", k1 |-> rp.k1, k2 |-> rp.k2,
            d |-> camelotDistance(rp.k1, rp.k2),
            back |-> camelotDistance(rp.k2, rp.k1),
            self |-> camelotDistance(rp.k1, rp.k1)]
  /\ UNCHANGED << runVars, LIBRARY, parked, connected, rt >>

InitKeys ==
  /\ LIBRARY = Library0
  /\ \E b \in Bodies : b.catalog = CatalogFull /\ RunIs(IdleRun(b))
  /\ parked = NoRun
  /\ connected = TRUE
  /\ \E k1 \in KeyInputs, k2 \in KeyInputs : rp = KeyPair(k1, k2)
  /\ rt = NoRetry

NextKeys == Distance

SpecKeys == InitKeys /\ [][NextKeys]_vars

\* C22: for every pair of keys camelotDistance accepts (wheel positions,
\* missing keys, unrecognised keys) the distance of a key to itself is 0,
\* the distance is symmetric, and it is at most 12
C22_DistanceLaws ==
  rp.pc = "distance" =>
    /\ rp.self = 0
    /\ rp.d = rp.back
    /\ rp.d <= 12


\* ------------------------------------------ identity normalization alone
\* longest identity string explored
MaxIdLen == 5

\* the characters identity strings are built from: an upper-case and a
\* lower-case letter (also hex digits), two digits, the dot, the percent
\* sign and both path separators
IdAlphabet == {"A", "e", "2", "5", ".", "%", "/", "\\"}

IdStrings == UNION {[1..n -> IdAlphabet] : n \in 0..MaxIdLen}

\* encodeURIComponent on the model's alphabet
RECURSIVE encodeURIComponent(_)
encodeURIComponent(s) ==
  IF s = <<>> THEN <<>>
  ELSE (CASE Head(s) = "%" -> <<"%", "2", "5">>
          [] Head(s) = "/" -> <<"%", "2", "F">>
          [] Head(s) = "\\" -> <<"%", "5", "C">>
          [] OTHER -> <<Head(s)>>) \o encodeURIComponent(Tail(s))

\* the same path with another file extension (the path itself if it has none)
OtherExt(x) == IF stripExt(x) = x THEN x ELSE stripExt(x) \o <<".", "e">>

\* an identity string whose key has not been computed yet
IdentityOf(x) == [pc |-> "identity", x |-> x]

\* matchKey is applied to the string, to its own result, and to the variants
\* of the string in case, separator, extension and encoding
Normalize ==
  /\ rp.pc = "identity"
  /\ \E key \in {matchKey(rp.x)} :
       rp' = [pc |-> "key", x |-> rp.x, key |-> key,
              again |-> matchKey(key),
              lower |-> matchKey(LowerStr(rp.x)),
              slash |-> matchKey(SlashStr(rp.x)),
              ext |-> matchKey(OtherExt(rp.x)),
              encoded |-> matchKey(encodeURIComponent(rp.x))]
  /\ UNCHANGED << runVars, LIBRARY, parked, connected, rt >>

InitNorm ==
  /\ LIBRARY = Library0
  /\ \E b \in Bodies : b.catalog = CatalogFull /\ RunIs(IdleRun(b))
  /\ parked = NoRun
  /\ connected = TRUE
  /\ \E x \in IdStrings : rp = IdentityOf(x)
  /\ rt = NoRetry

NextNorm == Normalize

SpecNorm == InitNorm /\ [][NextNorm]_vars

\* the variants of a string in case, separator and extension have its key
C23_VariantsAgree ==
  rp.pc = "key" =>
    /\ rp.lower = rp.key
    /\ rp.slash = rp.key
    /\ rp.ext = rp.key

\* the URL-encoded form of a string without escapes has its key
C23_EncodingAgrees ==
  (rp.pc = "key" /\ "%" \notin Range(rp.x)) => rp.encoded = rp.key

\* matchKey applied to its own result changes nothing
C23_Idempotent ==
  rp.pc = "key" => rp.again = rp.key

\* C23: matchKey is idempotent for every identity string, and the variants
\* of one path in case, URL-encoding, separator or extension have one key
C23_NormalizationLaws ==
  /\ C23_Idempotent
  /\ C23_VariantsAgree
  /\ C23_EncodingAgrees


\* ------------------------------------- properties of cross-origin widening
\* the request names (or, with homogenize, implies) an origin all of whose
\* tracks of the requested style are in avoidSet, while a track of the style
\* and of another origin is neither avoided nor previously rejected
ReplaceOriginExhausted(ws, target) ==
  /\ rp.req.style # ""
  /\ target # NoOrch
  /\ \A k \in DOMAIN ws :
       (hasStyle(ws[k], rp.req.style) /\ trackArtist(ws[k]) = target) =>
         idKeyOf(ws[k]) \in ReplaceAvoidSet
  /\ \E k \in DOMAIN ws :
       /\ hasStyle(ws[k], rp.req.style)
       /\ trackArtist(ws[k]) # target
       /\ ~keyExcluded(ReplaceAvoidSet, ReplaceRejectedSet, idKeyOf(ws[k]))

\* the response is a success whose replacement is a track of another origin
ReplacedFromOtherOrigin(ws, target) ==
  /\ rp.status = 200
  /\ \E k \in DOMAIN ws :
       getId(ws[k]) = rp.replacement /\ trackArtist(ws[k]) # target

\* C24: a replacement request whose avoidSet holds every same-style track of
\* the requested origin, while a same-style track of another origin is outside
\* avoidSet and previouslyRejectedSet, succeeds with a replacement of a
\* different origin
C24_CrossOriginReplacement ==
  rp.pc = "done" =>
    \A ws \in {replaceWorkingSet(LIBRARY, rp.req.catalog)} :
      \A target \in {replaceTargetOrchestra(ws, rp.req)} :
        ReplaceOriginExhausted(ws, target) => ReplacedFromOtherOrigin(ws, target)


\* ----------------------------------- properties of the widened candidates
\* the pending call of the ladder names an origin whose candidates were too
\* few, so that the full style pool was sent
SentWidened(l) ==
  /\ ladderOrchestra(l) # NoOrch
  /\ Len(l.allStyle) > 0
  /\ ladderSent(l) = IdsOf(Slice(l.allStyle, CAND_MAX))
  /\ ladderSent(l) # IdsOf(SelectSeq(l.candidates, LAMBDA t :
                       normalizeOrchestra(trackArtist(t))
                         = normalizeOrchestra(ladderOrchestra(l))))

\* ans names `size` different unused identities, all from the list sent
ValidAnswer(ans, l, used) ==
  /\ Len(ans) = l.size
  /\ \A j, k \in DOMAIN ans : j # k => ans[j] # ans[k]
  /\ \A k \in DOMAIN ans : ans[k] \in Range(ladderSent(l)) /\ ~isUsed(used, ans[k])

\* the step is the return of the pending planning call with answer ans
PlanAnswersWith(ans) ==
  /\ pc = "plan"
  /\ \E cur \in {awaited(Cur)}, sent \in {ladderSent(lad)} :
       \E r \in {planOneTandaResult(ans, lad.size, sent)} : afterPlan(cur, r)

\* the step appends a group whose tracks are the tracks ans names, in order
GroupOfAnswer(ans) ==
  /\ Len(tandasResolved') = Len(tandasResolved) + 1
  /\ IdsOf(tandasResolved'[Len(tandasResolved')].tracks) = ans

\* C25: when the origin restriction of the origin path left too few
\* candidates, the full style pool was sent, and the oracle answers with
\* `size` valid identities from it, the slot's group consists of those tracks
C25_WidenedAnswerPopulates ==
  [][\A ans \in OracleAnswers :
       (/\ path = "origin"
        /\ pc = "plan"
        /\ lad.phase = "first"
        /\ SentWidened(lad)
        /\ ValidAnswer(ans, lad, usedIds)
        /\ PlanAnswersWith(ans)) => GroupOfAnswer(ans)]_vars


\* --------------------------------------------- properties of the metrics
\* the groups with their placeholders removed
RealOnly(resolved) ==
  [k \in DOMAIN resolved |->
     [resolved[k] EXCEPT !.tracks = SelectSeq(resolved[k].tracks, isRealTrack)]]

SummaryEvents == SelectSeq(out, LAMBDA e : e.type = "summary")
QualityEvents == SelectSeq(out, LAMBDA e : e.type = "quality")

\* C26: the track count and the average track length of the summary event
\* and the sufficiency count of the quality event are those of the real
\* tracks alone: placeholders do not enter them
C26_MetricsOverRealTracks ==
  pc = "done" =>
    /\ SummaryEvents[1].data.trackCount
         = summarize(RealOnly(tandasResolved)).trackCount
    /\ SummaryEvents[1].data.avgTrackLenSec
         = summarize(RealOnly(tandasResolved)).avgTrackLenSec
    /\ QualityEvents[1].data.goodTandas
         = Len(goodTandas(RealOnly(tandasResolved)))


\* ------------------------------------------ properties of the retry ladder
\* the ladder of the retryTanda request resumes from the call of this phase
LadderResumes(phase) == rt.pc = "await" /\ rt.lad.phase = phase

\* fewer than size - 1 real identities, or no result at all
Insufficient(r, size) == ~r.ok \/ countReal(r) < size - 1

\* C27: after the first attempt the alternative-origin retries are executed
\* if and only if the first attempt failed or returned fewer than size - 1
\* real identities
C27_RetriesIffInsufficient ==
  [][LadderResumes("first") =>
       (rt'.lad.phase = "retry" <=> Insufficient(rt'.lad.last, rt.lad.size))]_vars

\* C28: when the best result after the alternative-origin retries has fewer
\* than size - 1 real identities, one further call without origin restriction
\* is made, and only one; no such call is made when the result is sufficient
C28_FinalCallIffInsufficient ==
  [][/\ (LadderResumes("first") \/ LadderResumes("retry"))
          /\ rt'.lad.phase \in {"final", "return"}
        => (rt'.lad.phase = "final" <=> Insufficient(rt'.lad.last, rt.lad.size))
     /\ LadderResumes("final")
        => (rt'.lad.phase # "final" /\ rt'.lad.calls # rt.lad.calls + 1)]_vars

OriginFiltered(l) ==
  SelectSeq(l.candidates, LAMBDA t :
    normalizeOrchestra(trackArtist(t)) = normalizeOrchestra(ladderOrchestra(l)))

\* C30: the list a call with an origin restriction sends to the oracle is
\* the origin-filtered list when that list has at least `size` entries, and
\* the full style pool when it has fewer
C30_WidenedBelowSize ==
  (pc = "plan" /\ ladderOrchestra(lad) \notin {NoOrch, "any orchestra"}) =>
    /\ Len(OriginFiltered(lad)) >= lad.size =>
         ladderSent(lad) = IdsOf(Slice(OriginFiltered(lad), CAND_MAX))
    /\ Len(OriginFiltered(lad)) < lad.size =>
         ladderSent(lad) = IdsOf(Slice(lad.allStyle, CAND_MAX))


\* ------------------------------------------- properties of the previous key
\* the key of the last track of the group that has a resolvable key, NoKey
\* when no track of the group has one
RECURSIVE LastResolvableKey(_)
LastResolvableKey(tracks) ==
  IF tracks = <<>> THEN NoKey
  ELSE IF keyToCamelot(tracks[Len(tracks)]) # NoKey
       THEN keyToCamelot(tracks[Len(tracks)])
       ELSE LastResolvableKey(SubSeq(tracks, 1, Len(tracks) - 1))

\* C31: after a group is produced prevKey is the key of the last track of
\* the group that has a resolvable key, also when the group ends with
\* placeholders, and it keeps its value only when no track of the group has a
\* resolvable key
C31_PrevKeyFromLastResolvable ==
  [][Len(tandasResolved') = Len(tandasResolved) + 1 =>
       \E lk \in {LastResolvableKey(tandasResolved'[Len(tandasResolved')].tracks)} :
         prevKey' = (IF lk # NoKey THEN lk ELSE prevKey)]_vars


\* ------------------------------------------- properties of the tanda events
\* the seconds of the first k emitted groups
RECURSIVE EmittedSeconds(_)
EmittedSeconds(k) ==
  IF k = 0 THEN 0 ELSE TandaEvents[k].data.tanda.seconds + EmittedSeconds(k - 1)

FillerAnswers ==
  {<<IdK, x>> : x \in OracleIds} \cup {<<x, IdK>> : x \in OracleIds}

\* run(nextTandaAgent) resolves with a schema-valid answer that names the
\* non-dance track
PlanNamesFiller ==
  /\ pc = "plan"
  /\ \E cur \in {awaited(Cur)}, sent \in {ladderSent(lad)} :
       \E ans \in FillerAnswers :
         \E r \in {planOneTandaResult(ans, lad.size, sent)} : afterPlan(cur, r)
  /\ UNCHANGED outside

NextFiller == Next \/ PlanNamesFiller

SpecFiller == Init /\ [][NextFiller]_vars

\* ------------------------------------------- properties of the filler blocks
DoneBlocks == DoneEvents[1].data.tandas

\* C33: the final plan of a run with N >= 1 groups has N - 1 filler blocks,
\* one between every two consecutive groups and none before the first or
\* after the last, and no filler has the identity of a track of a group of
\* the plan
C33_FillersBetweenGroups ==
  (pc = "done" /\ Len(tandasResolved) >= 1) =>
    /\ Len(DoneBlocks) = 2 * Len(tandasResolved) - 1
    /\ \A k \in DOMAIN DoneBlocks :
         DoneBlocks[k].type = (IF k % 2 = 1 THEN "tanda" ELSE "cortina")
    /\ \A k, j \in DOMAIN DoneBlocks :
         (DoneBlocks[k].type = "cortina" /\ DoneBlocks[k].id # Null
            /\ DoneBlocks[j].type = "tanda") =>
           \A i \in DOMAIN DoneBlocks[j].tracks :
             isRealTrack(DoneBlocks[j].tracks[i]) =>
               matchKeyOf(getId(DoneBlocks[j].tracks[i])) # matchKeyOf(DoneBlocks[k].id)

\* ------------------------------------------- the library planner (makePlan)
\* Times are in seconds: a minute of the source is 60 here, so that the
\* fractional minutes of durMin stay exact.
PlanMarginSeconds == 300
PlanCortinaSeconds == 60
PlanTrimSlackSeconds == 30
PlanMinTrackSeconds == 120
PlanDefaultTrackSeconds == 180
PlanMinGroup == 3
BpmTolerance == 6
WheelWrap == 11
MaxWheelDigits == 99

\* a library entry as the planner reads it; bpm 0 stands for "no BPM tag",
\* sec 0 for "no duration", id NoPath for "no path"
NoPath == ""

PlanTrack(id, artist, year, bpm, key, sec, genre) ==
  [id |-> id, artist |-> artist, year |-> year, bpm |-> bpm, key |-> key,
   sec |-> sec, genre |-> genre]

getAbsolutePath(t) == t.id

getBPM(t) == t.bpm

\* Math.floor(y / 10) * 10, null (0) without a year
dec(y) == IF y # 0 THEN (y \div 10) * 10 ELSE 0

\* /^(\d{1,2})([AB])$/: the number of a key, -1 when the key does not match
WheelNumber(k) ==
  IF \E n \in 0..MaxWheelDigits : k \in {ToString(n) \o "A", ToString(n) \o "B"}
  THEN CHOOSE n \in 0..MaxWheelDigits : k \in {ToString(n) \o "A", ToString(n) \o "B"}
  ELSE 0 - 1

camelotOk(prev, curr) ==
  IF prev = NoKey \/ curr = NoKey THEN TRUE
  ELSE IF WheelNumber(prev) < 0 \/ WheelNumber(curr) < 0 THEN TRUE
  ELSE \/ WheelNumber(prev) = WheelNumber(curr)
       \/ Abs(WheelNumber(prev) - WheelNumber(curr)) = 1
       \/ Abs(WheelNumber(prev) - WheelNumber(curr)) = WheelWrap

\* Math.max(2, (durationSec ?? 180) / 60) minutes
durMin(t) ==
  Max(PlanMinTrackSeconds, IF t.sec = 0 THEN PlanDefaultTrackSeconds ELSE t.sec)

RECURSIVE SumDurMin(_)
SumDurMin(tracks) ==
  IF tracks = <<>> THEN 0 ELSE durMin(Head(tracks)) + SumDurMin(Tail(tracks))

\* `${artist ?? "Unknown"}|${dec(year) ?? "?"}`
clusterKey(t) == <<IF t.artist = NoOrch THEN "Unknown" ELSE t.artist, dec(t.year)>>

clusterOf(cand, t) == SelectSeq(cand, LAMBDA x : clusterKey(x) = clusterKey(t))

\* the largest cluster, the one met first among the largest
seedPool(cand) ==
  IF cand = <<>> THEN <<>>
  ELSE clusterOf(cand,
         cand[CHOOSE k \in DOMAIN cand :
                /\ \A j \in DOMAIN cand :
                     Len(clusterOf(cand, cand[j])) <= Len(clusterOf(cand, cand[k]))
                /\ \A j \in 1..(k - 1) :
                     Len(clusterOf(cand, cand[j])) < Len(clusterOf(cand, cand[k]))])

knownBpms(pool) ==
  SortRows([k \in DOMAIN SelectSeq(pool, LAMBDA x : getBPM(x) # 0) |->
              <<getBPM(SelectSeq(pool, LAMBDA x : getBPM(x) # 0)[k]), 0>>])

\* bpms[Math.floor(bpms.length / 2)], null (0) without any BPM
medianBpm(pool) ==
  IF knownBpms(pool) = <<>> THEN 0
  ELSE knownBpms(pool)[(Len(knownBpms(pool)) \div 2) + 1][1]

tempoDistance(t, median) ==
  Abs((IF getBPM(t) # 0 THEN getBPM(t) ELSE median) - median)

sortByTempo(q, median) ==
  CHOOSE r \in {[k \in DOMAIN sorted |-> sorted[k][2]] :
                  sorted \in {SortRows([k \in DOMAIN q |->
                                          <<tempoDistance(q[k], median), q[k]>>])}} : TRUE

\* the test of the greedy loop on a track against the last one chosen
continuityOk(last, t) ==
  /\ getBPM(t) = 0 \/ getBPM(last) = 0 \/ Abs(getBPM(t) - getBPM(last)) <= BpmTolerance
  /\ camelotOk(last.key, t.key)
  /\ dec(t.year) = dec(last.year) \/ t.artist = last.artist

RECURSIVE greedyChosen(_, _, _)
greedyChosen(pool, chosen, size) ==
  IF pool = <<>> THEN chosen
  ELSE IF chosen = <<>> \/ continuityOk(chosen[Len(chosen)], Head(pool))
       THEN IF Len(chosen) + 1 = size THEN Append(chosen, Head(pool))
            ELSE greedyChosen(Tail(pool), Append(chosen, Head(pool)), size)
       ELSE IF Len(chosen) = size THEN chosen
            ELSE greedyChosen(Tail(pool), chosen, size)

\* the fill-up from the rest of the candidates, nearest tempo first
fillUp(cand, chosen, size, median) ==
  IF Len(chosen) < size
  THEN chosen \o Slice(sortByTempo(SelectSeq(cand, LAMBDA t :
                                      \A k \in DOMAIN chosen : chosen[k] # t),
                                    median),
                       size - Len(chosen))
  ELSE chosen

\* the greedy pass over the seed pool, then the fill-up
scoreWithMedian(cand, size, median) ==
  CHOOSE r \in {Slice(fillUp(cand, chosen, size, median), size) :
                  chosen \in {greedyChosen(sortByTempo(seedPool(cand), median),
                                           <<>>, size)}} : TRUE

scoreWithinTanda(cand, size) ==
  CHOOSE r \in {scoreWithMedian(cand, size, median) :
                  median \in {medianBpm(seedPool(cand))}} : TRUE

\* ------------------------------------------------------ planner inputs
MaxPasses == 3

PlanLibSmooth ==
  << PlanTrack("p1.m", "O1", 1941, 62, "8A", 185, "tango"),
     PlanTrack("p2.m", "O1", 1942, 60, "8A", 185, "tango"),
     PlanTrack("p3.m", "O1", 1943, 64, "9A", 185, "tango"),
     PlanTrack("p4.m", "O1", 1944, 63, "9A", 190, "tango"),
     PlanTrack("w1.m", "O2", 1951, 70, "5A", 170, "vals"),
     PlanTrack("w2.m", "O2", 1952, 72, "5A", 170, "vals"),
     PlanTrack("w3.m", "O2", 1953, 71, "6A", 170, "vals") >>

PlanLibRough ==
  << PlanTrack("q1.m", "O1", 1941, 62, "8A", 185, "tango"),
     PlanTrack("q2.m", "O1", 1942, 60, "8A", 200, "tango"),
     PlanTrack("q3.m", "O1", 1943, 80, "3B", 185, "tango"),
     PlanTrack("q4.m", "O3", 1955, 63, "1A", 100, "tango"),
     PlanTrack(NoPath, "O1", 1944, 61, "8A", 185, "tango"),
     PlanTrack("w1.m", "O2", 1951, 0, NoKey, 0, "vals"),
     PlanTrack("w2.m", "O2", 1952, 72, "5A", 170, "vals"),
     PlanTrack("w3.m", "O2", 1953, 71, "6A", 170, "vals"),
     PlanTrack("m1.m", "O2", 1954, 90, "6A", 150, "milonga") >>

PlanLibraries == {<<>>, PlanLibSmooth, PlanLibRough}

PlanPatterns ==
  {<<>>, <<"Tango">>, <<"Tango", "Vals">>, <<"Milonga", "Tango">>, <<"Foxtrot">>}

PlanSizes ==
  {[Tango |-> 3, Vals |-> 3, Milonga |-> 3],
   [Tango |-> 4, Vals |-> 3, Milonga |-> 3],
   [Tango |-> 2, Vals |-> 2, Milonga |-> 1],
   [Tango |-> 0, Vals |-> 0, Milonga |-> 0]}

PlanMinutes == {4, 9, 10, 20}

\* POST /api/plan: makePlan(LIBRARY, pattern, minutes, sizes, cortinas)
PlanRequests ==
  {[library |-> l, pattern |-> p, sizes |-> s, minutes |-> m] :
     l \in PlanLibraries, p \in PlanPatterns, s \in PlanSizes, m \in PlanMinutes}

PlanCortinas == <<"c1.m", "c2.m">>

\* makePlan before its loop; calls is the history of scoreWithinTanda calls
PlanState(req) ==
  [pc |-> "while", req |-> req, tandas |-> <<>>, minutes |-> 0, used |-> {},
   pos |-> 1, cortinaIdx |-> 0, passes |-> 0, passStart |-> 0, calls |-> <<>>]

minutesTarget(s) == s.req.minutes * 60

byStyle(library, style) == SelectSeq(library, LAMBDA t : hasStyle(t, style))

sizeOf(sizes, style) ==
  CASE style = "Tango" -> sizes.Tango
    [] style = "Vals" -> sizes.Vals
    [] style = "Milonga" -> sizes.Milonga

planPool(s, style) ==
  SelectSeq(byStyle(s.req.library, style), LAMBDA t :
    getAbsolutePath(t) # NoPath /\ getAbsolutePath(t) \notin s.used)

planTanda(style, size, chosen) ==
  [type |-> "tanda", style |-> style, size |-> size, tracks |-> chosen]

planCortina(idx) ==
  [type |-> "cortina", absPath |-> PlanCortinas[(idx % Len(PlanCortinas)) + 1]]

\* one turn of the for loop once the group is chosen
planAppend(s, style, pool, chosen) ==
  IF Len(chosen) < Min(PlanMinGroup, sizeOf(s.req.sizes, style))
  THEN [s EXCEPT !.pc = "final",
                 !.calls = Append(@, [cand |-> pool,
                                      size |-> sizeOf(s.req.sizes, style),
                                      chosen |-> chosen])]
  ELSE [s EXCEPT
          !.used = @ \cup {getAbsolutePath(chosen[k]) : k \in DOMAIN chosen},
          !.tandas = @ \o << planTanda(style, sizeOf(s.req.sizes, style), chosen),
                             planCortina(s.cortinaIdx) >>,
          !.minutes = @ + SumDurMin(chosen) + PlanCortinaSeconds,
          !.cortinaIdx = @ + 1,
          !.calls = Append(@, [cand |-> pool,
                               size |-> sizeOf(s.req.sizes, style),
                               chosen |-> chosen]),
          !.pos = @ + 1,
          !.pc = IF s.minutes + SumDurMin(chosen) + PlanCortinaSeconds
                      >= minutesTarget(s)
                 THEN "final" ELSE "for"]

planTurn(s, style) ==
  IF style \notin {"Tango", "Vals", "Milonga"} THEN [s EXCEPT !.pc = "threw"]
  ELSE IF planPool(s, style) = <<>> THEN [s EXCEPT !.pc = "final"]
  ELSE CHOOSE r \in {planAppend(s, style, pool,
                                scoreWithinTanda(pool, sizeOf(s.req.sizes, style))) :
                       pool \in {planPool(s, style)}} : TRUE

\* the finalization: trim the trailing cortina
planTrim(s) ==
  IF /\ s.tandas # <<>>
     /\ s.tandas[Len(s.tandas)].type = "cortina"
     /\ s.minutes - PlanCortinaSeconds >= minutesTarget(s) - PlanTrimSlackSeconds
  THEN [s EXCEPT !.tandas = SubSeq(@, 1, Len(@) - 1),
                 !.minutes = @ - PlanCortinaSeconds,
                 !.pc = "returned"]
  ELSE [s EXCEPT !.pc = "returned"]

PlanFixed == UNCHANGED << LIBRARY, body, pc, workingSet, slots, usedIds,
                          tandasResolved, remainingSeconds, recentOrchestras,
                          prevKey, slotIx, path, targetOrchestra, profiles,
                          lad, out, hist, parked, connected, rt >>

\* outer: while (minutes < minutesTarget - 5)
PlanWhile ==
  /\ rp.pc = "while"
  /\ rp' = (IF rp.minutes < minutesTarget(rp) - PlanMarginSeconds
            THEN [rp EXCEPT !.pc = "for", !.pos = 1, !.passStart = rp.minutes]
            ELSE [rp EXCEPT !.pc = "final"])
  /\ PlanFixed

\* for (const style of pattern): one turn
PlanGroup ==
  /\ rp.pc = "for"
  /\ rp.pos <= Len(rp.req.pattern)
  /\ rp' = planTurn(rp, rp.req.pattern[rp.pos])
  /\ PlanFixed

\* the pattern is exhausted: back to the test of the while loop
PlanForEnd ==
  /\ rp.pc = "for"
  /\ rp.pos > Len(rp.req.pattern)
  /\ rp.passes < MaxPasses
  /\ rp' = [rp EXCEPT !.pc = "while", !.passes = @ + 1]
  /\ PlanFixed

PlanFinish ==
  /\ rp.pc = "final"
  /\ rp' = planTrim(rp)
  /\ PlanFixed

InitPlan ==
  /\ LIBRARY = Library0
  /\ \E b \in Bodies : b.catalog = CatalogFull /\ RunIs(IdleRun(b))
  /\ parked = NoRun
  /\ connected = TRUE
  /\ \E req \in PlanRequests : rp = PlanState(req)
  /\ rt = NoRetry

NextPlan == PlanWhile \/ PlanGroup \/ PlanForEnd \/ PlanFinish

SpecPlan == InitPlan /\ [][NextPlan]_vars

\* ------------------------------------------------ properties of the planner
PlanReturned == rp.pc = "returned"

EndsWithCortina(s) == s.tandas # <<>> /\ s.tandas[Len(s.tandas)].type = "cortina"

\* C34: a sequence returned by makePlan that ends with a filler does not
\* exceed the requested minutes: the finalization has removed every trailing
\* filler that made the total exceed the budget by less than one filler unit
C34_TrailingFillerWithinBudget ==
  (PlanReturned /\ EndsWithCortina(rp)) => rp.minutes <= minutesTarget(rp)

\* C39: every call of scoreWithinTanda returns min(size, number of
\* candidates) tracks, pairwise distinct and all among the candidates, and
\* every two adjacent tracks of the result keep the continuity constraints:
\* tempos at most 6 apart when both are known, wheel numbers equal or
\* adjacent when both keys are known, and the same decade or the same origin
C39_GroupContinuity ==
  rp.pc \in {"for", "final", "returned"} =>
    \A c \in DOMAIN rp.calls :
      /\ Len(rp.calls[c].chosen) = Min(rp.calls[c].size, Len(rp.calls[c].cand))
      /\ \A i, j \in DOMAIN rp.calls[c].chosen :
           i # j => rp.calls[c].chosen[i] # rp.calls[c].chosen[j]
      /\ \A i \in DOMAIN rp.calls[c].chosen :
           rp.calls[c].chosen[i] \in Range(rp.calls[c].cand)
      /\ \A i \in 1..(Len(rp.calls[c].chosen) - 1) :
           continuityOk(rp.calls[c].chosen[i], rp.calls[c].chosen[i + 1])

\* the paths of the tracks of the k-th block when it is a group
GroupPaths(s, k) ==
  IF s.tandas[k].type = "tanda"
  THEN {getAbsolutePath(s.tandas[k].tracks[i]) : i \in DOMAIN s.tandas[k].tracks}
  ELSE {}

\* C40: makePlan terminates for every request POST /api/plan accepts, the
\* empty pattern included: every pass of its while loop over the pattern that
\* comes back to the loop test has raised the planned total, which the loop
\* test bounds; and no library track is in more than one group of the plan
C40_PlanTerminatesWithoutReuse ==
  /\ [](\A k, j \in DOMAIN rp.tandas :
          k # j => GroupPaths(rp, k) \cap GroupPaths(rp, j) = {})
  /\ [][(rp.pc = "for" /\ rp'.pc = "while") => rp'.minutes > rp.passStart]_vars

\* ------------------------------------------- broadening of the replacement
WidenRank(step) ==
  CASE step = "origin" -> 1 [] step = "styles" -> 2 [] step = "any" -> 3

\* C35: in a replacement that answers, the broadening block is entered
\* whenever the filtered pool has fewer than topK entries, with or without
\* earlier rejections; its steps fire in the order origin, compatible styles,
\* any style; and the response tells that a broadening step fired
C35_BroadeningBelowTopK ==
  (rp.pc = "done" /\ rp.status = 200) =>
    /\ Len(rp.pool) < rp.req.topK => rp.widen.entered
    /\ \A i, j \in DOMAIN rp.widen.steps :
         i < j => WidenRank(rp.widen.steps[i]) < WidenRank(rp.widen.steps[j])
    /\ rp.metadata.broadeningApplied = (rp.widen.steps # <<>>)

\* ------------------------------------------------- the choice of an origin
\* The two generation entry points choose the origin of a slot from the
\* oracle's ranking: bulkGenerate by pickOrchestraWeighted and its fallback,
\* the streaming route by the first feasible suggestion and its fallback.
WindowLen == 2

\* a working-set track with its genre tag as written (tag) and lower-cased
PickTrack(id, artist, tag, year) ==
  [id |-> id, artist |-> artist, genre |-> StyleLower(tag), sec |-> 100,
   year |-> year, key |-> NoKey, placeholder |-> FALSE, tag |-> tag]

PickWorkingSet ==
  << PickTrack(IdA, "O1", "Tango", 1940),
     PickTrack(IdB, "O1", "Tango", 1941),
     PickTrack(IdC, "O2", "Tango", 1940),
     PickTrack(IdD, "O2", "Tango", 1942),
     PickTrack(IdE, "O3", "Tango", 1950),
     PickTrack(IdG, "O1", "Vals", 1940) >>

PickRankings == {<<>>} \cup OracleRankings

PickRecent == {<<>>, <<"O1">>, <<"O2", "O1">>, <<"O1", "O3", "O2">>}

PickUsed == {{}, {matchKeyOf(IdA)}, {matchKeyOf(IdC)}}

PickSizes == {1, 2, 3}

PickInputs ==
  {[pc |-> "pick", entry |-> e, ws |-> PickWorkingSet, used |-> u,
    style |-> st, size |-> n, suggestions |-> sg, recent |-> rc,
    target |-> NoOrch] :
     e \in {"bulk", "stream"}, u \in PickUsed, st \in {"Tango", "Vals"},
     n \in PickSizes, sg \in PickRankings, rc \in PickRecent}

\* recentOrchestras.slice(-windowLen)
recentWindow(recent) ==
  Range(SubSeq(recent, Max(1, Len(recent) - WindowLen + 1), Len(recent)))

\* countAvailableByOrchestra: the unused tracks whose genre tag is the style,
\* by origin (the count of one origin)
countAvailableByOrchestra(ws, style, used, orch) ==
  Len(SelectSeq(ws, LAMBDA t :
        t.tag = style /\ getId(t) # Null /\ ~isUsed(used, getId(t))
        /\ trackArtist(t) = orch))

\* the origins of the availability map, in insertion order
availableOrchestras(ws, style, used) ==
  DistinctArtists(SelectSeq(ws, LAMBDA t :
                    t.tag = style /\ getId(t) # Null /\ ~isUsed(used, getId(t))), {})

\* pickOrchestraWeighted: the bag of the roulette wheel; every entry of the
\* bag has a positive weight and can be drawn
weightedBag(suggestions, ws, style, used, sizeTarget) ==
  {suggestions[k] : k \in {j \in DOMAIN suggestions :
      /\ countAvailableByOrchestra(ws, style, used, suggestions[j]) >= sizeTarget
      /\ countAvailableByOrchestra(ws, style, used, suggestions[j]) > 0}}

pickOrchestraWeighted(suggestions, ws, style, used, sizeTarget) ==
  IF weightedBag(suggestions, ws, style, used, sizeTarget) = {} THEN {NoOrch}
  ELSE weightedBag(suggestions, ws, style, used, sizeTarget)

\* the fallback of bulkGenerate: any origin with enough availability,
\* preferring those outside the recent window
bulkEligible(ws, style, used, sizeTarget) ==
  {o \in Range(availableOrchestras(ws, style, used)) :
     countAvailableByOrchestra(ws, style, used, o) >= sizeTarget}

bulkFallback(eligible, window) ==
  IF eligible \ window # {} THEN eligible \ window
  ELSE IF eligible # {} THEN eligible
  ELSE {NoOrch}

bulkTargets(p) ==
  IF pickOrchestraWeighted(p.suggestions, p.ws, p.style, p.used, p.size) # {NoOrch}
  THEN pickOrchestraWeighted(p.suggestions, p.ws, p.style, p.used, p.size)
  ELSE bulkFallback(bulkEligible(p.ws, p.style, p.used, p.size),
                    recentWindow(p.recent))

\* the streaming route: its role-filtered pool of the slot
streamPool(p) ==
  baseRolePool([workingSet |-> p.ws, usedIds |-> p.used, slotIx |-> 1,
                slots |-> <<[style |-> p.style, role |-> "classic", size |-> p.size]>>])

PickFixed == UNCHANGED << LIBRARY, body, pc, workingSet, slots, usedIds,
                          tandasResolved, remainingSeconds, recentOrchestras,
                          prevKey, slotIx, path, targetOrchestra, profiles,
                          lad, out, hist, parked, connected, rt >>

PickBulk ==
  /\ rp.pc = "pick"
  /\ rp.entry = "bulk"
  /\ \E target \in bulkTargets(rp) :
       rp' = [rp EXCEPT !.pc = "picked", !.target = target]
  /\ PickFixed

PickStream ==
  /\ rp.pc = "pick"
  /\ rp.entry = "stream"
  /\ rp' = [rp EXCEPT !.pc = "picked",
                      !.target = pickTargetOrchestra(streamPool(rp),
                                                     rp.suggestions, rp.size)]
  /\ PickFixed

InitPick ==
  /\ LIBRARY = Library0
  /\ \E b \in Bodies : b.catalog = CatalogFull /\ RunIs(IdleRun(b))
  /\ parked = NoRun
  /\ connected = TRUE
  /\ rp \in PickInputs
  /\ rt = NoRetry

NextPick == PickBulk \/ PickStream

SpecPick == InitPick /\ [][NextPick]_vars

\* ------------------------------------------ properties of the chosen origin
\* the unused tracks of the style that an origin has in the working set
UnusedOfStyle(p, orch) ==
  {k \in DOMAIN p.ws :
     /\ hasStyle(p.ws[k], p.style)
     /\ matchKeyOf(getId(p.ws[k])) \notin p.used
     /\ trackArtist(p.ws[k]) = orch}

PickOrigins(p) == {trackArtist(p.ws[k]) : k \in DOMAIN p.ws}

\* C36: the origin chosen for a slot, by the pick among the suggestions or by
\* its fallback, has at least as many unused tracks of the slot's style as
\* the group size; no origin is chosen when none has that many
C36_ChosenOriginFeasible ==
  rp.pc = "picked" =>
    /\ rp.target # NoOrch => Cardinality(UnusedOfStyle(rp, rp.target)) >= rp.size
    /\ (\A o \in PickOrigins(rp) : Cardinality(UnusedOfStyle(rp, o)) < rp.size)
         => rp.target = NoOrch

C36_Witness ==
  /\ rp.pc = "picked"
  /\ rp.entry = "stream"
  /\ rp.suggestions = <<"O1">>
  /\ rp.used = {matchKeyOf(IdA)}
  /\ rp.size = 2
  /\ rp.style = "Tango"
  /\ rp.target = "O2"

\* the origins that meet the availability threshold of the entry point
Qualifying(p) ==
  IF p.entry = "bulk" THEN bulkEligible(p.ws, p.style, p.used, p.size)
  ELSE {o \in PickOrigins(p) : availability(streamPool(p), o) >= p.size}

\* C37: when no suggested origin meets the threshold, the fallback of either
\* entry point picks an origin of the last two groups only if no qualifying
\* origin lies outside that recent window
C37_FallbackAvoidsRecent ==
  (/\ rp.pc = "picked"
   /\ Range(rp.suggestions) \cap Qualifying(rp) = {}
   /\ rp.target \in recentWindow(rp.recent)) =>
    Qualifying(rp) \ recentWindow(rp.recent) = {}

\* -------------------------------------- mergeSlotsAndTagsIntoTrack
\* A scalar field is a string, "undefined" when the object has no such field
\* and "null" for null.  An object or an array is a tagged set of
\* <<key, value>> pairs, the keys of an array being its indices.
Undef == "undefined"
NullS == "null"
Undefined == [kind |-> "undefined", of |-> {}]
NullValue == [kind |-> "null", of |-> {}]
Obj(pairs) == [kind |-> "object", of |-> pairs]
Arr(pairs) == [kind |-> "array", of |-> pairs]

\* a ?? b on scalars and on tagged values
orElse(a, b) == IF a \in {Undef, NullS} THEN b ELSE a
orElseValue(a, b) == IF a.kind \in {"undefined", "null"} THEN b ELSE a

\* obj.key, obj?.key
getField(v, key) ==
  IF \E p \in v.of : p[1] = key THEN (CHOOSE p \in v.of : p[1] = key)[2] ELSE Undef

KeysOf(pairs) == {p[1] : p \in pairs}

\* { ...a, ...b }: the own enumerable keys of a, then those of b
spread(a, b) ==
  Obj({p \in a.of : p[1] \notin KeysOf(b.of)} \cup b.of)

\* obj.key = value on an object
setField(v, key, value) ==
  [v EXCEPT !.of = {p \in @ : p[1] # key} \cup {<<key, value>>}]

truthy(x) == x \notin {Undef, NullS, ""}

mergedTagsOf(track, override) ==
  spread(orElseValue(track.tags, Obj({})), orElseValue(override.tags, Obj({})))

mergedGenreOf(track, override) ==
  orElse(override.genre,
         orElse(track.genre, getField(mergedTagsOf(track, override), "genre")))

syncedTags(track, override) ==
  IF truthy(mergedGenreOf(track, override))
  THEN setField(mergedTagsOf(track, override), "genre", mergedGenreOf(track, override))
  ELSE mergedTagsOf(track, override)

\* the override is undefined or null when it is not given
mergeSlotsAndTagsIntoTrack(track, override) ==
  IF ~override.given THEN track
  ELSE [track EXCEPT
          !.tags = syncedTags(track, override),
          !.styles = spread(orElseValue(track.styles, Obj({})),
                            orElseValue(override.styles, Obj({}))),
          !.genre = mergedGenreOf(track, override),
          !.artUrl = orElse(getField(override.tags, "artUrl"),
                            orElse(override.artUrl, orElse(track.artUrl, NullS))),
          !.year = orElse(getField(syncedTags(track, override), "year"),
                          orElse(track.year, NullS)),
          !.slot = orElse(override.slot, orElse(track.slot, NullS)),
          !.role = orElse(override.role, orElse(track.role, NullS))]

\* ------------------------------------------------------- merge inputs
MergeTracks ==
  {[title |-> "T", tags |-> tg, styles |-> st, genre |-> g, year |-> y,
    artUrl |-> Undef, slot |-> Undef, role |-> r] :
     tg \in {Undefined, Obj({<<"year", "1940">>, <<"genre", "tango">>})},
     st \in {Undefined, Arr({<<"0", "vals">>, <<"1", "alt">>}),
             Obj({<<"primary", "tango">>})},
     g \in {Undef, "tango"}, y \in {Undef, "1950"}, r \in {Undef, "rich"}}

MergeOverrides ==
  {[given |-> FALSE, tags |-> Undefined, styles |-> Undefined, genre |-> Undef,
    artUrl |-> Undef, slot |-> Undef, role |-> Undef]}
  \cup
  {[given |-> TRUE, tags |-> tg, styles |-> st, genre |-> g, artUrl |-> Undef,
    slot |-> Undef, role |-> r] :
     tg \in {NullValue, Obj({<<"genre", "vals">>}),
             Obj({<<"year", "1960">>, <<"artUrl", "b.png">>})},
     st \in {NullValue, Arr({<<"0", "milonga">>}), Obj({<<"primary", "vals">>})},
     g \in {Undef, "milonga"}, r \in {Undef, "classic"}}

MergeCall(track, override) == [pc |-> "merge", track |-> track, override |-> override]

\* the call: the arguments as the caller holds them afterwards (the function
\* assigns to no field of either), and what it returned
Merge ==
  /\ rp.pc = "merge"
  /\ rp' = [pc |-> "merged", track |-> rp.track, override |-> rp.override,
            before |-> [track |-> rp.track, override |-> rp.override],
            merged |-> mergeSlotsAndTagsIntoTrack(rp.track, rp.override)]
  /\ UNCHANGED << LIBRARY, body, pc, workingSet, slots, usedIds,
                  tandasResolved, remainingSeconds, recentOrchestras,
                  prevKey, slotIx, path, targetOrchestra, profiles,
                  lad, out, hist, parked, connected, rt >>

InitMerge ==
  /\ LIBRARY = Library0
  /\ \E b \in Bodies : b.catalog = CatalogFull /\ RunIs(IdleRun(b))
  /\ parked = NoRun
  /\ connected = TRUE
  /\ \E t \in MergeTracks, o \in MergeOverrides : rp = MergeCall(t, o)
  /\ rt = NoRetry

NextMerge == Merge

SpecMerge == InitMerge /\ [][NextMerge]_vars

\* ------------------------------------------------ properties of the merge
\* scalar fields of a track that an override can mention
MergeScalarFields == {"genre", "artUrl", "slot", "role"}

ScalarOf(r, f) ==
  CASE f = "genre" -> r.genre [] f = "artUrl" -> r.artUrl
    [] f = "slot" -> r.slot [] f = "role" -> r.role [] f = "year" -> r.year
    [] f = "title" -> r.title

\* the override says nothing of the top-level field f
Unmentioned(o, f) ==
  /\ f \in MergeScalarFields => ScalarOf(o, f) \in {Undef, NullS}
  /\ getField(o.tags, f) \in {Undef, NullS}

\* C38: mergeSlotsAndTagsIntoTrack leaves its arguments as they were; without
\* an override it returns the track; with one, the tags of the result hold
\* every key of the override's tags with the override's value and every other
\* key of the track's tags with the track's value, an array-valued styles of
\* the override is the styles of the result, still an array, and every
\* top-level field the track has and the override does not mention keeps its
\* value
C38_MergeLaws ==
  rp.pc = "merged" =>
    /\ rp.track = rp.before.track /\ rp.override = rp.before.override
    /\ ~rp.override.given => rp.merged = rp.track
    /\ rp.override.given =>
         /\ \A p \in rp.override.tags.of : getField(rp.merged.tags, p[1]) = p[2]
         /\ \A p \in rp.track.tags.of :
              p[1] \notin KeysOf(rp.override.tags.of) =>
                getField(rp.merged.tags, p[1]) = p[2]
         /\ rp.override.styles.kind = "array" => rp.merged.styles = rp.override.styles
         /\ \A f \in MergeScalarFields \cup {"year", "title"} :
              (ScalarOf(rp.track, f) # Undef /\ Unmentioned(rp.override, f)) =>
                ScalarOf(rp.merged, f) = ScalarOf(rp.track, f)

============================================================================
